---- MODULE Spec2Model ----
(***************************************************************************)
(* Riigikogu digital twin: the ingestion client (checkpointed sync), the   *)
(* baseline backtest, the model trainer with its promotion gate, the       *)
(* predictor with its fallback chain, and the background jobs that run     *)
(* them.                                                                   *)
(*                                                                         *)
(* Units.  Accuracies are integers in hundredths of a percent (10000 is    *)
(* 100.0%); a value persisted with round(x, 1) is a multiple of 10.        *)
(* Timestamps are the components of a zero-padded ISO-8601 string          *)
(* (<<2025, 5, 1, 10>> is "2025-05-01T10:..."), compared the way Python    *)
(* and MongoDB compare the strings: lexicographically, a proper prefix     *)
(* being the smaller.  <<>> stands for a missing (None) votingTime.        *)
(***************************************************************************)
EXTENDS Integers, Sequences, FiniteSets, TLC

(***************************************************************************)
(* Bounds of the model                                                     *)
(***************************************************************************)
\* job starts (triggers and scheduler firings) explored in one behaviour
MaxStarts == 2
\* len(X_train) < 100 in the source; the votings of the model hold a handful
\* of voters, so the threshold is scaled down
MIN_TRAIN_SAMPLES == 3

(***************************************************************************)
(* Program constants                                                       *)
(***************************************************************************)
MAX_VOTINGS == 1000
TREND_SLICE == 100
PLAN_SLICE == 50

\* settings.model_cutoff_date = "2025-05-01"
model_cutoff_date == <<2025, 5, 1>>

None == "None"

(***************************************************************************)
(* Generic helpers                                                         *)
(***************************************************************************)
Range(s) == {s[i] : i \in DOMAIN s}

Min2(a, b) == IF a <= b THEN a ELSE b

Max2(a, b) == IF a >= b THEN a ELSE b

\* str.__lt__ / MongoDB string order on the component sequences
RECURSIVE StrLess(_, _)
StrLess(a, b) ==
    IF b = <<>> THEN FALSE
    ELSE IF a = <<>> THEN TRUE
    ELSE IF Head(a) # Head(b) THEN Head(a) < Head(b)
    ELSE StrLess(Tail(a), Tail(b))

\* {"votingTime": {"$lt": bound}}: a missing or null field matches no string
\* comparison (type bracketing)
MatchLt(t, bound) == t # <<>> /\ StrLess(t, bound)

\* {"votingTime": {"$gte": bound}}
MatchGte(t, bound) == t # <<>> /\ ~StrLess(t, bound)

\* Counter(xs).most_common(1)[0][0]: the highest count, the first one inserted
\* into the counter on a tie
CountOf(xs, x) == Cardinality({i \in DOMAIN xs : xs[i] = x})

FirstIndex(xs, x) == CHOOSE i \in DOMAIN xs : xs[i] = x /\ \A j \in DOMAIN xs : xs[j] = x => i <= j

MostCommon(xs) ==
    CHOOSE x \in Range(xs) :
        \A y \in Range(xs) :
            \/ CountOf(xs, x) > CountOf(xs, y)
            \/ CountOf(xs, x) = CountOf(xs, y) /\ FirstIndex(xs, x) <= FirstIndex(xs, y)

\* round(num / den * 100, 1) in hundredths of a percent
RoundPct1(num, den) == 10 * ((2000 * num + den) \div (2 * den))

\* round(x, 1) of an accuracy given in hundredths of a percent
Round1(x) == 10 * ((x + 5) \div 10)

(***************************************************************************)
(* Party resolver (sync/riigikogu.py)                                      *)
(***************************************************************************)
VALID_PARTY_CODES == {"EKRE", "I", "RE", "SDE", "K", "E200", "PAREMPOOLSED", "FR"}

PARTY_CODE_PATTERNS ==
    << <<"Konservatiiv", "EKRE">>, <<"EKRE", "EKRE">>, <<"Isamaa", "I">>,
       <<"Reform", "RE">>, <<"Sotsiaaldemokraat", "SDE">>, <<"Kesk", "K">>,
       <<"200", "E200">>, <<"Paremp", "PAREMPOOLSED">>, <<"mittekuuluv", "FR">> >>

\* The faction labels of the model's data, as the upstream API spells them
F_RE == "Eesti Reformierakonna fraktsioon"
F_K == "Eesti Keskerakonna fraktsioon"
F_SDE == "Sotsiaaldemokraatliku Erakonna fraktsioon"
F_FR == "Fraktsiooni mittekuuluvad Riigikogu liikmed"

\* pattern.lower() in faction_name.lower(), for the labels above: the patterns
\* of PARTY_CODE_PATTERNS that occur in each label, letter case ignored
PatternsIn(label) ==
    CASE label = F_RE -> {"Reform"}
      [] label = F_K -> {"Kesk"}
      [] label = F_SDE -> {"Sotsiaaldemokraat"}
      [] label = F_FR -> {"mittekuuluv"}
      [] label = "EKRE" -> {"EKRE"}
      [] label = "E200" -> {"200"}
      [] label = "PAREMPOOLSED" -> {"Paremp"}
      [] OTHER -> {}

\* The first rule of PARTY_CODE_PATTERNS whose pattern occurs in the label
FirstPatternMatch(label) ==
    LET hits == {i \in DOMAIN PARTY_CODE_PATTERNS : PARTY_CODE_PATTERNS[i][1] \in PatternsIn(label)}
    IN  IF hits = {} THEN "FR"
        ELSE PARTY_CODE_PATTERNS[CHOOSE i \in hits : \A j \in hits : i <= j][2]

\* the resolver without the test for an already valid code
ExtractByPatternsOnly(faction_name) ==
    IF faction_name = None \/ faction_name = "" THEN "FR"
    ELSE FirstPatternMatch(faction_name)

extract_party_code(faction_name) ==
    IF faction_name = None \/ faction_name = "" THEN "FR"
    ELSE IF faction_name \in VALID_PARTY_CODES THEN faction_name
    ELSE FirstPatternMatch(faction_name)

(***************************************************************************)
(* Strings and Python values.  A str is the sequence of its characters; a  *)
(* value is tagged with its type: None, a str, a dict with the keys code   *)
(* and value, or a member of the enum VoteDecision                         *)
(***************************************************************************)
LowerLetters == <<"a", "b", "c", "d", "e", "f", "g", "h", "i", "j", "k", "l", "m", "n", "o", "p", "q", "r", "s", "t", "u", "v", "w", "x", "y", "z">>

UpperLetters == <<"A", "B", "C", "D", "E", "F", "G", "H", "I", "J", "K", "L", "M", "N", "O", "P", "Q", "R", "S", "T", "U", "V", "W", "X", "Y", "Z">>

\* str.upper() and str.lower(), letter by letter
UpperChar(c) ==
    IF \E i \in DOMAIN LowerLetters : LowerLetters[i] = c
    THEN UpperLetters[CHOOSE i \in DOMAIN LowerLetters : LowerLetters[i] = c] ELSE c

LowerChar(c) ==
    IF \E i \in DOMAIN UpperLetters : UpperLetters[i] = c
    THEN LowerLetters[CHOOSE i \in DOMAIN UpperLetters : UpperLetters[i] = c] ELSE c

StrUpper(cs) == [i \in DOMAIN cs |-> UpperChar(cs[i])]

StrLower(cs) == [i \in DOMAIN cs |-> LowerChar(cs[i])]

\* the accented letters of Estonian names, each one character, written here
\* by name
LowerAccented == <<"a_uml", "o_uml", "u_uml", "o_tilde", "s_caron", "z_caron">>

UpperAccented == <<"A_uml", "O_uml", "U_uml", "O_tilde", "S_caron", "Z_caron">>

\* str.lower() of a name: accented capitals have lower-case forms too
NameLowerChar(c) ==
    IF \E i \in DOMAIN UpperAccented : UpperAccented[i] = c
    THEN LowerAccented[CHOOSE i \in DOMAIN UpperAccented : UpperAccented[i] = c]
    ELSE LowerChar(c)

\* str.strip(): leading and trailing blanks removed
RECURSIVE StrStrip(_)
StrStrip(cs) ==
    IF cs = <<>> THEN cs
    ELSE IF Head(cs) = " " THEN StrStrip(Tail(cs))
    ELSE IF cs[Len(cs)] = " " THEN StrStrip(SubSeq(cs, 1, Len(cs) - 1))
    ELSE cs

PyNone == [t |-> "none"]

PyStr(cs) == [t |-> "str", s |-> cs]

PyDict(code, value) == [t |-> "dict", code |-> code, value |-> value]

PyEnum(name) == [t |-> "enum", name |-> name]

\* bool(v) as the operator "or" tests it
Truthy(v) == ~(v.t = "none") /\ ~(v.t = "str" /\ v.s = <<>>)

\* the value of a VoteDecision member
EnumValue(name) ==
    CASE name = "FOR" -> <<"F", "O", "R">> [] name = "AGAINST" -> <<"A", "G", "A", "I", "N", "S", "T">>
      [] name = "ABSTAIN" -> <<"A", "B", "S", "T", "A", "I", "N">> [] name = "ABSENT" -> <<"A", "B", "S", "E", "N", "T">>

\* str(v): a str is itself, None is "None", a member of VoteDecision (a str
\* mixed into Enum) prints as "VoteDecision.NAME"
PyToStr(v) ==
    CASE v.t = "str" -> v.s
      [] v.t = "none" -> <<"N", "o", "n", "e">>
      [] v.t = "enum" -> <<"V", "o", "t", "e", "D", "e", "c", "i", "s", "i", "o", "n", ".">> \o EnumValue(v.name)

(***************************************************************************)
(* Decision normaliser (sync/riigikogu.py)                                 *)
(***************************************************************************)
DECISION_MAP ==
    << <<<<"P", "O", "O", "L", "T">>, "FOR">>,
       <<<<"F", "O", "R">>, "FOR">>,
       <<<<"P">>, "FOR">>,
       <<<<"K", "O", "H", "A", "L">>, "FOR">>,
       <<<<"V", "A", "S", "T", "U">>, "AGAINST">>,
       <<<<"A", "G", "A", "I", "N", "S", "T">>, "AGAINST">>,
       <<<<"V">>, "AGAINST">>,
       <<<<"E", "R", "A", "P", "O", "O", "L", "E", "T", "U">>, "ABSTAIN">>,
       <<<<"A", "B", "S", "T", "A", "I", "N">>, "ABSTAIN">>,
       <<<<"E">>, "ABSTAIN">>,
       <<<<"P", "U", "U", "D", "U", "B">>, "ABSENT">>,
       <<<<"P", "U", "U", "D", "U", "S">>, "ABSENT">>,
       <<<<"A", "B", "S", "E", "N", "T">>, "ABSENT">>,
       <<<<"-">>, "ABSENT">> >>

\* DECISION_MAP.get(key, VoteDecision.ABSENT)
DecisionFor(key) ==
    IF \E i \in DOMAIN DECISION_MAP : DECISION_MAP[i][1] = key
    THEN DECISION_MAP[CHOOSE i \in DOMAIN DECISION_MAP : DECISION_MAP[i][1] = key][2]
    ELSE "ABSENT"

\* DECISION_MAP.get(str(raw).strip().upper(), VoteDecision.ABSENT)
DecisionOf(raw) == DecisionFor(StrUpper(StrStrip(PyToStr(raw))))

\* normalize_decision: the name of the VoteDecision member it returns
normalize_decision(raw) ==
    IF raw.t = "none" THEN "ABSENT"
    ELSE IF raw.t = "dict"
    THEN DecisionOf(IF Truthy(raw.code) THEN raw.code
                    ELSE IF Truthy(raw.value) THEN raw.value ELSE PyStr(<<>>))
    ELSE DecisionOf(raw)

(***************************************************************************)
(* Slug generator: make_slug (sync/riigikogu.py)                           *)
(***************************************************************************)
Digits == <<"0", "1", "2", "3", "4", "5", "6", "7", "8", "9">>

\* the character class [a-z0-9äöüõšž-] whose complement the first re.sub removes
SlugKept == Range(LowerLetters) \cup Range(Digits) \cup Range(LowerAccented) \cup {"-"}

\* re.sub(r"-+", "-", s)
RECURSIVE CollapseHyphens(_)
CollapseHyphens(cs) ==
    IF Len(cs) < 2 THEN cs
    ELSE IF cs[1] = "-" /\ cs[2] = "-" THEN CollapseHyphens(Tail(cs))
    ELSE <<cs[1]>> \o CollapseHyphens(Tail(cs))

\* s.strip("-")
RECURSIVE StripHyphens(_)
StripHyphens(cs) ==
    IF cs = <<>> THEN cs
    ELSE IF Head(cs) = "-" THEN StripHyphens(Tail(cs))
    ELSE IF cs[Len(cs)] = "-" THEN StripHyphens(SubSeq(cs, 1, Len(cs) - 1))
    ELSE cs

make_slug(first_name, last_name) ==
    LET joined == first_name \o <<"-">> \o last_name
        lowered == [i \in DOMAIN joined |-> NameLowerChar(joined[i])]
        kept == SelectSeq(lowered, LAMBDA c : c \in SlugKept)
    IN  StripHyphens(CollapseHyphens(kept))

FirstNames ==
    { <<"J", "u_uml", "r", "i">>,
      <<"K", "a", "j", "a">>,
      <<"H", "e", "l", "l", "e", "-", "M", "o", "o", "n", "i", "k", "a">>,
      <<"K", "r", "i", "s", "t", "o", " ", "E", "n", "n">>,
      <<"T", "e", "s", "t", ".">>,
      <<"O_tilde", "n", "n", "e">>,
      <<"-", "L", "e", "a", "-">>,
      <<"Z", "u_uml", "l", "e", "y", "x", "a">>,
      <<"T", "o_tilde", "n", "i", "s">>,
      <<"M", "a", "r", "i", "2">> }

LastNames ==
    { <<"R", "a", "t", "a", "s">>,
      <<"K", "a", "l", "l", "a", "s">>,
      <<"H", "e", "l", "m", "e">>,
      <<"V", "a", "g", "a">>,
      <<"N", "a", "m", "e", "!">>,
      <<"S_caron", "m", "i", "g", "u", "n", "-", "V", "a_uml", "h", "i">>,
      <<"-", "-", "D", "a", "n", "i", "l", "s", "o", "n", "-", "J", "a_uml", "r", "g">>,
      <<"K", "u_uml", "t", "t">>,
      <<"R", "a_uml", "s", "t", "a", "-">>,
      <<"L", "u", "k", "a", "s">> }

(***************************************************************************)
(* Party cohesion of one voting (prediction/features.py).  The quotient    *)
(* aligned / len(party_decisions) is kept as the pair of its terms          *)
(***************************************************************************)
MaxVoters == 4

\* voter.get("decision", "ABSENT")
DecisionOfVoter(voter) == IF "decision" \in DOMAIN voter THEN voter.decision ELSE "ABSENT"

\* the party's decisions with the absent ones counted too
CohesionDecisionsWithAbsent(voters, party_code) ==
    LET kept == SelectSeq(voters, LAMBDA v : extract_party_code(v.faction) = party_code)
    IN  [i \in DOMAIN kept |-> DecisionOfVoter(kept[i])]

\* party_decisions: the decisions of the party's voters that are not ABSENT
CohesionDecisions(voters, party_code) ==
    LET kept == SelectSeq(voters, LAMBDA v : /\ extract_party_code(v.faction) = party_code
                                              /\ DecisionOfVoter(v) # "ABSENT")
    IN  [i \in DOMAIN kept |-> DecisionOfVoter(kept[i])]

_compute_party_cohesion(voting, party_code) ==
    LET party_decisions == CohesionDecisions(voting.voters, party_code)
    IN  IF party_decisions = <<>> THEN [aligned |-> 1, of |-> 1]
        ELSE [aligned |-> CountOf(party_decisions, MostCommon(party_decisions)),
              of |-> Len(party_decisions)]

CohesionVoters ==
    {[faction |-> F_RE, decision |-> d] : d \in {"FOR", "AGAINST", "ABSTAIN", "ABSENT"}}
        \cup {[faction |-> F_K, decision |-> "FOR"], [faction |-> F_RE]}

CohesionVotings == UNION {{[voters |-> vs] : vs \in [1..n -> CohesionVoters]} : n \in 0..MaxVoters}

(***************************************************************************)
(* The party of a member at ingestion: _parse_member (sync/riigikogu.py)   *)
(***************************************************************************)
MaxFactions == 3

\* "mittekuuluvad" in name.lower(), for the faction labels of the model
NonAffiliated(name) == name = F_FR

\* the first active membership, the non-affiliated bucket like any other
FirstActiveFaction(factions) ==
    LET active == {i \in DOMAIN factions : factions[i].membership.endDate = None}
    IN  IF active = {} THEN None
        ELSE factions[CHOOSE i \in active : \A j \in active : i <= j].name

\* The loop over raw["factions"]: an ended membership is skipped, the
\* non-affiliated bucket is remembered as the fallback, and the first other
\* active membership ends the loop
RECURSIVE ActiveFactionFrom(_, _, _)
ActiveFactionFrom(factions, i, fallback) ==
    IF i > Len(factions) THEN fallback
    ELSE IF factions[i].membership.endDate # None THEN ActiveFactionFrom(factions, i + 1, fallback)
    ELSE IF NonAffiliated(factions[i].name) THEN ActiveFactionFrom(factions, i + 1, factions[i].name)
    ELSE factions[i].name

CurrentFaction(factions) == ActiveFactionFrom(factions, 1, None)

\* partyCode of _parse_member: the factions array, or the single faction of
\* the old format (faction.get("name") or ... or ""), or neither
_parse_member(raw) ==
    LET faction_name ==
            IF "factions" \in DOMAIN raw THEN CurrentFaction(raw.factions)
            ELSE IF "faction" \in DOMAIN raw THEN raw.faction.name
            ELSE None
    IN  [uuid |-> raw.uuid, faction |-> faction_name, partyCode |-> extract_party_code(faction_name)]

FactionEntries ==
    {[name |-> n, membership |-> [endDate |-> e]] : n \in {F_RE, F_SDE, F_FR}, e \in {None, "2024-05-01"}}

RawMembers ==
    UNION {{[uuid |-> "m1", factions |-> fs] : fs \in [1..n -> FactionEntries]} : n \in 0..MaxFactions}
        \cup {[uuid |-> "m1", faction |-> [name |-> F_K]], [uuid |-> "m1", faction |-> [name |-> ""]], [uuid |-> "m1"]}

(***************************************************************************)
(* Data of the model: the votings the upstream API can serve               *)
(***************************************************************************)
Voter(m, f, d) == [memberUuid |-> m, faction |-> f, decision |-> d]

Doc(u, t, vs) == [uuid |-> u, votingTime |-> t, voters |-> vs]

VotingPool ==
    << Doc("v1", <<2025, 4, 30, 10>>,
           << Voter("m1", F_RE, "FOR"), Voter("m2", F_RE, "FOR"), Voter("m3", F_RE, "AGAINST"),
              Voter("m4", F_K, "AGAINST") >>),
       Doc("v2", <<>>,
           << Voter("m1", F_RE, "FOR") >>),
       Doc("v3", <<2025, 5, 1, 0>>,
           << Voter("m1", F_RE, "FOR"), Voter("m2", F_RE, "AGAINST"), Voter("m4", F_K, "AGAINST") >>),
       Doc("v4", <<2025, 5, 2, 9>>,
           << Voter("m1", F_RE, "FOR"), Voter("m4", F_K, "ABSENT") >>) >>

(***************************************************************************)
(* Document store: find / sort / limit / upsert                            *)
(***************************************************************************)
\* cursor.sort("votingTime", -1): descending, a missing time last, the
\* collection's order kept among equal times
RECURSIVE InsertDesc(_, _)
InsertDesc(sorted, d) ==
    IF sorted = <<>> THEN <<d>>
    ELSE IF StrLess(Head(sorted).votingTime, d.votingTime) THEN <<d>> \o sorted
    ELSE <<Head(sorted)>> \o InsertDesc(Tail(sorted), d)

RECURSIVE SortTimeDesc(_)
SortTimeDesc(docs) ==
    IF docs = <<>> THEN <<>>
    ELSE InsertDesc(SortTimeDesc(SubSeq(docs, 1, Len(docs) - 1)), docs[Len(docs)])

\* cursor.limit(n)
Limit(docs, n) == SubSeq(docs, 1, Min2(n, Len(docs)))

\* insert_one in place of the upsert
InsertAlways(coll, doc) == Append(coll, doc)

\* update_one({"uuid": u}, {"$set": doc}, upsert=True): the first document
\* with that uuid is replaced field by field, a new one is appended otherwise
Upsert(coll, doc) ==
    LET hits == {i \in DOMAIN coll : coll[i].uuid = doc.uuid}
    IN  IF hits = {} THEN Append(coll, doc)
        ELSE [coll EXCEPT ![CHOOSE i \in hits : \A j \in hits : i <= j] = doc]

(***************************************************************************)
(* Per-voting party statistics shared by the backtest, the trainer and the *)
(* coalition detector                                                      *)
(***************************************************************************)
\* party_decisions[party]: the non-absent decisions of the party's voters, in
\* voter order
PartyDecisions(voters, party) ==
    LET mine == SelectSeq(voters, LAMBDA v : extract_party_code(v.faction) = party /\ v.decision # "ABSENT")
    IN  [i \in DOMAIN mine |-> mine[i].decision]

\* the keys of party_decisions, in insertion order
RECURSIVE PartiesOf(_)
PartiesOf(voters) ==
    IF voters = <<>> THEN <<>>
    ELSE LET rest == PartiesOf(SubSeq(voters, 1, Len(voters) - 1))
             v == voters[Len(voters)]
             p == extract_party_code(v.faction)
         IN  IF v.decision = "ABSENT" \/ p \in Range(rest) THEN rest ELSE Append(rest, p)

HasVotes(voters, party) == PartyDecisions(voters, party) # <<>>

PartyMajority(voters, party) == MostCommon(PartyDecisions(voters, party))

(***************************************************************************)
(* Coalition detector (prediction/features.py)                             *)
(***************************************************************************)
COALITION_WINDOW == 100

\* str order of the party codes (min(party, other), max(party, other))
CodeRank(c) ==
    CASE c = "E200" -> 1 [] c = "EKRE" -> 2 [] c = "FR" -> 3 [] c = "I" -> 4
      [] c = "K" -> 5 [] c = "PAREMPOOLSED" -> 6 [] c = "RE" -> 7 [] c = "SDE" -> 8

\* party_positions[party]: the party's majority in every voting of the window
\* where it has a non-absent voter, in window order
RECURSIVE PartyPositions(_, _)
PartyPositions(window, party) ==
    IF window = <<>> THEN <<>>
    ELSE LET rest == PartyPositions(Tail(window), party)
         IN  IF HasVotes(Head(window).voters, party)
             THEN <<PartyMajority(Head(window).voters, party)>> \o rest
             ELSE rest

\* list(party_positions.keys()): parties in the order they were first seen
RECURSIVE PartiesSeen(_)
PartiesSeen(window) ==
    IF window = <<>> THEN <<>>
    ELSE LET rest == PartiesSeen(SubSeq(window, 1, Len(window) - 1))
             new == SelectSeq(PartiesOf(window[Len(window)].voters), LAMBDA p : p \notin Range(rest))
         IN  rest \o new

\* agreement_matrix: keyed by (parties[i], parties[j]) with i < j; the value is
\* the pair <<agree, min_len>>
AgreementKeys(parties) ==
    {<<parties[ij[1]], parties[ij[2]]>> : ij \in {x \in (DOMAIN parties) \X (DOMAIN parties) : x[1] < x[2]}}

Agreement(window, p1, p2) ==
    LET pos1 == PartyPositions(window, p1)
        pos2 == PartyPositions(window, p2)
        min_len == Min2(Len(pos1), Len(pos2))
    IN  <<Cardinality({k \in 1..min_len : pos1[k] = pos2[k]}), min_len>>

\* agreement_matrix.get((min(party, other), max(party, other)), 0) > 0.7
HighAgreement(window, parties, party, other) ==
    LET lo == IF CodeRank(party) <= CodeRank(other) THEN party ELSE other
        hi == IF CodeRank(party) <= CodeRank(other) THEN other ELSE party
        a == Agreement(window, lo, hi)
    IN  /\ <<lo, hi>> \in AgreementKeys(parties)
        /\ a[2] > 0
        /\ 10 * a[1] > 7 * a[2]

Partners(window, parties, party) ==
    {party} \cup {o \in Range(parties) : o # party /\ HighAgreement(window, parties, party, o)}

\* the loop over parties: a strictly larger cluster replaces the coalition
RECURSIVE BestCluster(_, _, _)
BestCluster(window, parties, n) ==
    IF n = 0 THEN {}
    ELSE LET before == BestCluster(window, parties, n - 1)
             mine == Partners(window, parties, parties[n])
         IN  IF Cardinality(mine) > Cardinality(before) THEN mine ELSE before

_detect_coalition(coll) ==
    LET window == Limit(SortTimeDesc(coll), COALITION_WINDOW)
        parties == PartiesSeen(window)
    IN  BestCluster(window, parties, Len(parties))

(***************************************************************************)
(* Statistics aggregator: compute_mp_stats (sync/riigikogu.py)             *)
(***************************************************************************)
NoStats == [present |-> FALSE, totalVotes |-> 0, attendance |-> 0, votesFor |-> 0, partyAlignmentRate |-> 0]

Mp(m, code, st) == [memberUuid |-> m, partyCode |-> code, stats |-> st]

\* every voter entry of the member, over all votings
RECURSIVE EntriesOf(_, _)
EntriesOf(coll, uuid) ==
    IF coll = <<>> THEN <<>>
    ELSE SelectSeq(Head(coll).voters, LAMBDA v : v.memberUuid = uuid) \o EntriesOf(Tail(coll), uuid)

\* the votings that count for the alignment rate: the member voted (not
\* absent) and a voter of the member's current party cast a non-absent vote
AlignmentVotings(coll, uuid, party_code) ==
    {i \in DOMAIN coll :
        LET mine == SelectSeq(coll[i].voters, LAMBDA v : v.memberUuid = uuid)
        IN  /\ mine # <<>>
            /\ mine[Len(mine)].decision # "ABSENT"
            /\ HasVotes(coll[i].voters, party_code)}

AlignedVotings(coll, uuid, party_code) ==
    {i \in AlignmentVotings(coll, uuid, party_code) :
        LET mine == SelectSeq(coll[i].voters, LAMBDA v : v.memberUuid = uuid)
        IN  mine[Len(mine)].decision = PartyMajority(coll[i].voters, party_code)}

MemberStats(coll, uuid, party_code) ==
    LET entries == EntriesOf(coll, uuid)
        total == Len(entries)
        absent == Len(SelectSeq(entries, LAMBDA v : v.decision = "ABSENT"))
        alignment_total == Cardinality(AlignmentVotings(coll, uuid, party_code))
        alignment_count == Cardinality(AlignedVotings(coll, uuid, party_code))
    IN  [present |-> TRUE,
         totalVotes |-> total,
         attendance |-> IF total > 0 THEN RoundPct1(total - absent, total) ELSE 0,
         votesFor |-> Len(SelectSeq(entries, LAMBDA v : v.decision = "FOR")),
         partyAlignmentRate |-> IF alignment_total > 0 THEN RoundPct1(alignment_count, alignment_total) ELSE 0]

compute_mp_stats(coll, mps) ==
    [i \in DOMAIN mps |-> [mps[i] EXCEPT !.stats = MemberStats(coll, mps[i].memberUuid, mps[i].partyCode)]]

(***************************************************************************)
(* Baseline backtest: run_backtest (prediction/baseline.py)                *)
(***************************************************************************)
\* the voters run_backtest scores in one voting, and those it scores correct
Scored(voters) == SelectSeq(voters, LAMBDA v : v.decision # "ABSENT")

ScoredCorrect(voters) ==
    SelectSeq(voters, LAMBDA v : v.decision # "ABSENT"
                                 /\ v.decision = PartyMajority(voters, extract_party_code(v.faction)))

RECURSIVE TotalScored(_)
TotalScored(docs) ==
    IF docs = <<>> THEN 0 ELSE Len(Scored(Head(docs).voters)) + TotalScored(Tail(docs))

RECURSIVE TotalCorrect(_)
TotalCorrect(docs) ==
    IF docs = <<>> THEN 0 ELSE Len(ScoredCorrect(Head(docs).voters)) + TotalCorrect(Tail(docs))

PostCutoff(coll) == SelectSeq(coll, LAMBDA d : MatchGte(d.votingTime, model_cutoff_date))

\* the result of run_backtest: error when no voting is at or after the
\* cutoff, the overall accuracy and the number of scored votes otherwise
run_backtest_result(coll) ==
    LET docs == PostCutoff(coll)
        total == TotalScored(docs)
        correct == TotalCorrect(docs)
    IN  IF docs = <<>> THEN [error |-> TRUE, overall |-> 0, total |-> 0]
        ELSE [error |-> FALSE,
              overall |-> IF total > 0 THEN RoundPct1(correct, total) ELSE 0,
              total |-> total]

(***************************************************************************)
(* Training data: _build_training_data (prediction/model.py)               *)
(***************************************************************************)
FEATURE_NAMES ==
    << "party_loyalty_rate", "bill_topic_similarity", "committee_relevance", "coalition_bill",
       "defection_rate_by_topic", "party_cohesion_on_similar", "days_since_last_defection",
       "mp_attendance_rate", "party_position_strength" >>

\* the query with its two bounds taken for each other
TrainingQuerySwapped(t, before_date, after_date) ==
    IF after_date # <<>> /\ before_date = <<>> THEN MatchLt(t, after_date)
    ELSE IF before_date # <<>> /\ after_date = <<>> THEN MatchGte(t, before_date)
    ELSE IF before_date # <<>> /\ after_date # <<>> THEN MatchGte(t, before_date) /\ MatchLt(t, after_date)
    ELSE TRUE

\* the query of _build_training_data; <<>> is an argument left None
TrainingQuery(t, before_date, after_date) ==
    IF before_date # <<>> /\ after_date = <<>> THEN MatchLt(t, before_date)
    ELSE IF after_date # <<>> /\ before_date = <<>> THEN MatchGte(t, after_date)
    ELSE IF before_date # <<>> /\ after_date # <<>> THEN MatchGte(t, after_date) /\ MatchLt(t, before_date)
    ELSE TRUE

\* mp_stats[uuid], values in 1/10000: the last mps document of the member
MpInfo(mps, uuid) ==
    LET hits == {i \in DOMAIN mps : mps[i].memberUuid = uuid}
        mp == mps[CHOOSE i \in hits : \A j \in hits : j <= i]
        st == mp.stats
        loyalty == IF st.present THEN st.partyAlignmentRate ELSE 8500
        total_v == IF st.present /\ st.totalVotes # 0 THEN st.totalVotes ELSE 1
        votes_for == IF st.present THEN st.votesFor ELSE 0
    IN  IF hits = {}
        THEN [loyalty |-> 8500, defection_rate |-> 1500, attendance |-> 8000, personal_for_rate |-> 7000]
        ELSE [loyalty |-> loyalty,
              defection_rate |-> 10000 - loyalty,
              attendance |-> IF st.present THEN st.attendance ELSE 8000,
              personal_for_rate |-> (10000 * votes_for) \div Max2(total_v, 1)]

Direction(d) == CASE d = "FOR" -> 10000 [] d = "AGAINST" -> -10000 [] OTHER -> 0

\* opp_decisions: the non-absent decisions of the parties outside the
\* coalition, party by party
RECURSIVE OppDecisions(_, _, _)
OppDecisions(voters, parties, coalition) ==
    IF parties = <<>> THEN <<>>
    ELSE (IF Head(parties) \in coalition THEN <<>> ELSE PartyDecisions(voters, Head(parties)))
         \o OppDecisions(voters, Tail(parties), coalition)

OppDirection(voters, coalition) ==
    LET opp == OppDecisions(voters, PartiesOf(voters), coalition)
    IN  IF opp = <<>> THEN 0 ELSE Direction(MostCommon(opp))

\* the features dict built for one voter of one voting
TrainingFeatures(voters, v, mps, coalition) ==
    LET party_code == extract_party_code(v.faction)
        mp_info == MpInfo(mps, v.memberUuid)
        decisions == PartyDecisions(voters, party_code)
        maj == MostCommon(decisions)
        aligned == CountOf(decisions, maj)
    IN  [party_loyalty_rate |-> mp_info.loyalty,
         coalition_bill |-> IF party_code \in coalition THEN 10000 ELSE 0,
         party_cohesion |-> (10000 * aligned) \div Len(decisions),
         mp_attendance_rate |-> mp_info.attendance,
         mp_defection_rate |-> mp_info.defection_rate,
         party_majority_direction |-> Direction(maj),
         party_majority_margin |-> (10000 * aligned) \div Len(decisions),
         is_independent |-> IF party_code = "FR" THEN 10000 ELSE 0,
         mp_personal_for_rate |-> mp_info.personal_for_rate,
         opposition_majority_direction |-> OppDirection(voters, coalition)]

\* [features.get(name, 0.0) for name in FEATURE_NAMES]
FeatureVec(features) ==
    [i \in DOMAIN FEATURE_NAMES |->
        IF FEATURE_NAMES[i] \in DOMAIN features THEN features[FEATURE_NAMES[i]] ELSE 0]

\* the samples of one voting: one per non-absent voter
VotingSamples(d, mps, coalition) ==
    LET vs == SelectSeq(d.voters, LAMBDA v : v.decision # "ABSENT")
    IN  [i \in DOMAIN vs |->
            [voting |-> d.uuid,
             x |-> FeatureVec(TrainingFeatures(d.voters, vs[i], mps, coalition)),
             y |-> vs[i].decision,
             party |-> extract_party_code(vs[i].faction)]]

RECURSIVE SamplesOf(_, _, _)
SamplesOf(docs, mps, coalition) ==
    IF docs = <<>> THEN <<>>
    ELSE VotingSamples(Head(docs), mps, coalition) \o SamplesOf(Tail(docs), mps, coalition)

\* (X, y, parties) as one sequence of samples; each sample also names the
\* voting it was built from
_build_training_data(coll, mps, before_date, after_date) ==
    LET matched == SelectSeq(coll, LAMBDA d : TrainingQuery(d.votingTime, before_date, after_date))
        docs == Limit(SortTimeDesc(matched), MAX_VOTINGS)
    IN  SamplesOf(docs, mps, _detect_coalition(coll))

(***************************************************************************)
(* Model selection inside train_model (prediction/model.py, lines 78-170)  *)
(***************************************************************************)
\* held-out accuracies the fitted classifiers can score
CandAccs == {6670, 10000}

\* The candidate train_model ends up with.  acc_logistic, acc_weighted and
\* acc_natural are the scores of the three fitted classifiers; xgb_ok is
\* FALSE when the XGBoost block raises; calibrated is TRUE when
\* calibrate_model ran and the candidate was scored again (acc_calibrated).
SelectCandidate(acc_logistic, xgb_ok, acc_weighted, acc_natural, calibrated, acc_calibrated) ==
    LET after_w == IF acc_weighted > acc_logistic
                   THEN [version |-> "xgboost-v2-weighted", acc |-> acc_weighted]
                   ELSE [version |-> "logistic-v1", acc |-> acc_logistic]
        after_n == IF acc_natural > after_w.acc
                   THEN [version |-> "xgboost-v2-natural", acc |-> acc_natural]
                   ELSE after_w
        best == IF xgb_ok THEN after_n ELSE [version |-> "logistic-v1", acc |-> acc_logistic]
    IN  [version |-> best.version,
         test_accuracy |-> IF calibrated THEN acc_calibrated ELSE best.acc]

TrainOutcomes ==
    {SelectCandidate(a, ok, w, n, cal, c) :
        a \in CandAccs, ok \in BOOLEAN, w \in CandAccs, n \in CandAccs, cal \in BOOLEAN, c \in CandAccs}

\* len(X_test) == 0: nothing is scored
UnscoredCandidate == [version |-> "logistic-v1", test_accuracy |-> 0]

(***************************************************************************)
(* model_state: the singleton document {"_id": "current"}                  *)
(*   a number field that is absent is -1, an absent list or dict <<>>, any *)
(*   other absent field None;                                              *)
(*   trainedAt holds the job that wrote it in place of the wall clock     *)
(***************************************************************************)
NoModelState ==
    [exists |-> FALSE, version |-> None, trainedAt |-> None, trainingSize |-> -1,
     features |-> None, featureImportances |-> None,
     mlModelVersion |-> None, mlModelAccuracy |-> -1,
     improvementOverBaseline |-> -1, baselineAccuracy |-> -1, accuracy |-> -1,
     backtestCounts |-> -1, trend |-> <<>>,
     errorCategories |-> <<>>, lastDiagnosedAt |-> -1,
     improvementPriorities |-> <<>>, planHistory |-> <<>>]

\* replace_one in place of the partial update: the fields not named are lost
ReplaceFields(doc, fields) ==
    [f \in DOMAIN doc |->
        IF f = "exists" THEN TRUE
        ELSE IF f \in DOMAIN fields THEN fields[f]
        ELSE NoModelState[f]]

\* update_one({"_id": "current"}, {"$set": fields}, upsert=True)
SetFields(doc, fields) ==
    [f \in DOMAIN doc |->
        IF f = "exists" THEN TRUE
        ELSE IF f \in DOMAIN fields THEN fields[f]
        ELSE doc[f]]

\* {"$push": {"trend": {"$each": [entry], "$slice": -TREND_SLICE}}}
PushTrend(doc, entry) ==
    LET all == Append(doc.trend, entry)
        from == Max2(1, Len(all) - TREND_SLICE + 1)
    IN  [doc EXCEPT !.trend = SubSeq(all, from, Len(all))]

\* {"$push": {"planHistory": {"$each": [plan_entry], "$slice": -PLAN_SLICE}}}
PushPlan(doc, plan_entry) ==
    LET all == Append(doc.planHistory, plan_entry)
        from == Max2(1, Len(all) - PLAN_SLICE + 1)
    IN  [doc EXCEPT !.planHistory = SubSeq(all, from, Len(all))]

\* the gate with "at least as good" in place of "better"
DeploysOnTie(test_accuracy, baseline_accuracy) == test_accuracy >= baseline_accuracy /\ test_accuracy > 0

\* the promotion gate of train_model (line 181)
Deploys(test_accuracy, baseline_accuracy) == test_accuracy > baseline_accuracy /\ test_accuracy > 0

\* the read with the default of plan_improvements, 85, for a missing value
ReadBaselineDefault85(doc) ==
    IF doc.exists /\ doc.baselineAccuracy # -1 THEN doc.baselineAccuracy ELSE 8500

\* baseline_state.get("baselineAccuracy", 0) when the document exists, else 0.0
ReadBaselineAccuracy(doc) ==
    IF doc.exists /\ doc.baselineAccuracy # -1 THEN doc.baselineAccuracy ELSE 0

\* update_fields of train_model (lines 227-246); deployed is "_model is not None"
TrainUpdateFields(now, n_train, cand, baseline_accuracy, deployed) ==
    LET base == [trainedAt |-> now,
                 trainingSize |-> n_train,
                 features |-> "FEATURE_NAMES",
                 featureImportances |-> cand.version,
                 mlModelVersion |-> cand.version,
                 mlModelAccuracy |-> Round1(cand.test_accuracy)]
        improvement == IF cand.test_accuracy > 0 THEN Round1(cand.test_accuracy - baseline_accuracy) ELSE 0
        more == [version |-> cand.version,
                 improvementOverBaseline |-> improvement,
                 baselineAccuracy |-> baseline_accuracy,
                 accuracy |-> IF cand.test_accuracy > 0 THEN Round1(cand.test_accuracy) ELSE -1]
    IN  IF deployed THEN base @@ more ELSE base

\* the $set of run_backtest (lines 180-201), trend included
BacktestFields(now, res) ==
    [version |-> "baseline-v1",
     trainedAt |-> now,
     trainingSize |-> res.total,
     features |-> "party_loyalty_rate",
     accuracy |-> res.overall,
     backtestCounts |-> res.total,
     baselineAccuracy |-> res.overall,
     improvementOverBaseline |-> 0,
     trend |-> <<res.overall>>]

(***************************************************************************)
(* Ingestion client: RiigikoguSync (sync/riigikogu.py)                     *)
(***************************************************************************)
\* range(2023, current_year + 1)
EPOCH_YEAR == 2023

\* the last calendar year the clock of the model reaches
MaxYear == 2024

\* sync runs explored in one behaviour
MaxSyncRuns == 2

\* requests answered with None or an error, and database calls that raise,
\* in one behaviour
MaxFaults == 1

\* settings.db_size_limit_mb, in documents: dataSize is the number of
\* documents the sync has stored
db_size_limit == 5

SyncTypes == <<"members", "votings", "stenograms", "drafts">>

YearTypes == {"votings", "stenograms", "drafts"}

\* What the upstream API serves: one member, and one voting, one sitting
\* with speeches and one draft for every year
UpstreamMembers == << [uuid |-> "m1", slug |-> "mari-maasikas", partyCode |-> "RE"] >>

\* the votings of a year in the listing: one, or three of them
SparseUpstream == 1

BusyUpstream == 3

\* count % 50 == 0 and count % 100 == 0 in _sync_votings_year: the size is
\* checked after every SIZE_CHECK_EVERY-th voting of the year, scaled to the
\* listings of the model
SIZE_CHECK_EVERY == 2

UpstreamVoting(year, k) ==
    Doc(IF k = 1 THEN <<"voting", year>> ELSE <<"voting", year, k>>,
        <<year, 3, k, 10>>, << Voter("m1", F_RE, "FOR") >>)

UpstreamListing(type, year, n) ==
    CASE type = "votings" -> [k \in 1..n |-> UpstreamVoting(year, k)]
      [] type = "stenograms" -> << [uuid |-> <<"steno", year>>] >>
      [] type = "drafts" -> << [uuid |-> <<"draft", year>>] >>

\* _get returns the parsed body, returns None (404, or three 429 answers in
\* a row), or raises after the third failed attempt
GetOutcomes == {"json", "none", "raise"}

\* the outcomes of a listing and its detail requests that are not a body
FaultsIn(list, details) ==
    (IF list = "json" THEN 0 ELSE 1) + Cardinality({i \in DOMAIN details : details[i] # "json"})

\* _upsert_mp_profile: update_one({"slug": slug}, {"$set": ...}, upsert=True)
UpsertMpProfile(profiles, member) ==
    LET hits == {i \in DOMAIN profiles : profiles[i].slug = member.slug}
    IN  IF hits = {}
        THEN Append(profiles, [slug |-> member.slug, memberUuid |-> member.uuid,
                               partyCode |-> member.partyCode, stats |-> NoStats])
        ELSE [profiles EXCEPT ![CHOOSE i \in hits : \A j \in hits : i <= j] =
                 [@ EXCEPT !.memberUuid = member.uuid, !.partyCode = member.partyCode]]

\* The loop of sync_members over the listed members.  details[i] is the
\* outcome of the detail request for member i; a missing detail only leaves
\* the committees out, a raise ends the loop with the earlier members stored.
RECURSIVE StoreMembers(_, _, _, _)
StoreMembers(listed, details, st, i) ==
    IF i > Len(listed) THEN st
    ELSE IF details[i] = "raise" THEN [st EXCEPT !.raised = TRUE]
    ELSE StoreMembers(listed, details,
                      [st EXCEPT !.members = Upsert(@, listed[i]),
                                 !.mps = UpsertMpProfile(@, listed[i]),
                                 !.count = @ + 1],
                      i + 1)

\* _check_db_size: False when the data size exceeds the limit
_check_db_size(dataSize) == ~(dataSize > db_size_limit)

\* The loop of _sync_votings_year, _sync_stenograms_year and _sync_drafts_year
\* over the listed records.  A voting already stored is counted and not
\* fetched again; votings and drafts need their detail, whose absence skips
\* the record; a sitting is stored from the listing itself.
RECURSIVE StoreRecords(_, _, _, _, _)
StoreRecords(type, listed, details, st, i) ==
    IF i > Len(listed) THEN st
    ELSE LET rec == listed[i]
             existing == type = "votings" /\ \E k \in DOMAIN st.coll : st.coll[k].uuid = rec.uuid
             stored == [st EXCEPT !.coll = Upsert(@, rec), !.count = @ + 1]
             \* lines 490-493: after a stored voting, every SIZE_CHECK_EVERY-th
             \* count checks the size and returns the count when it is too large
             guard_trips == /\ type = "votings"
                            /\ stored.count % SIZE_CHECK_EVERY = 0
                            /\ ~_check_db_size(st.other_size + Len(stored.coll))
         IN  IF existing THEN StoreRecords(type, listed, details, [st EXCEPT !.count = @ + 1], i + 1)
             ELSE IF type = "stenograms" THEN StoreRecords(type, listed, details, stored, i + 1)
             ELSE IF details[i] = "raise" THEN [st EXCEPT !.raised = TRUE]
             ELSE IF details[i] = "none" THEN StoreRecords(type, listed, details, st, i + 1)
             ELSE IF guard_trips THEN [stored EXCEPT !.tripped = TRUE, !.cut = i < Len(listed)]
             ELSE StoreRecords(type, listed, details, stored, i + 1)

\* a sync_progress document before the first run (_get_progress); lastRunAt,
\* a wall-clock timestamp, is left out
NoProgress ==
    [exists |-> FALSE, status |-> "idle", totalRecords |-> 0, checkpoints |-> <<>>,
     error |-> FALSE]

\* _is_year_completed looking at the newest checkpoint only
IsNewestYearCompleted(progress, year) ==
    /\ progress.checkpoints # <<>>
    /\ progress.checkpoints[Len(progress.checkpoints)].year = year
    /\ progress.checkpoints[Len(progress.checkpoints)].completed

\* _is_year_completed
_is_year_completed(progress, year) ==
    \E i \in DOMAIN progress.checkpoints :
        progress.checkpoints[i].year = year /\ progress.checkpoints[i].completed

\* the skip test of the year loop (sync_votings line 413)
SkipsYear(year, current_year, completed) == year < current_year /\ completed

\* the flag with the current year counted as over
CompletedThroughCurrent(year, current_year) == year <= current_year

\* completed=(year < current_year)
CompletedFlag(year, current_year) == year < current_year

\* _save_checkpoint, on the checkpoints it read: the first entry of the year
\* is overwritten, a new entry is appended otherwise
_save_checkpoint(checkpoints, year, record_count, completed) ==
    LET hits == {i \in DOMAIN checkpoints : checkpoints[i].year = year}
        cp == [year |-> year, recordCount |-> record_count, completed |-> completed, lastOffset |-> 0]
    IN  IF hits = {} THEN Append(checkpoints, cp)
        ELSE [checkpoints EXCEPT ![CHOOSE i \in hits : \A j \in hits : i <= j] = cp]

\* _save_progress: update_one({"_id": sync_type}, {"$set": update}, upsert=True)
_save_progress(progress, update) ==
    [f \in DOMAIN progress |->
        IF f = "exists" THEN TRUE
        ELSE IF f \in DOMAIN update THEN update[f]
        ELSE progress[f]]


\* an entry of the results dict of sync_all: not set yet, the count a type
\* returned, or the "error: ..." string
Unset == [kind |-> "unset", n |-> 0]

Count(n) == [kind |-> "count", n |-> n]

ErrorString == [kind |-> "error", n |-> 0]

\* sync_all without the try block around sync_members: its exception leaves
\* sync_all
AfterTypeMembersUncaught(sy, t, result) ==
    LET k == CHOOSE i \in DOMAIN SyncTypes : SyncTypes[i] = t
        escapes == t = "members" /\ result = ErrorString
    IN  [sy EXCEPT !.results = IF escapes THEN @ ELSE [@ EXCEPT ![t] = result],
                   !.pc = IF escapes THEN "raised" ELSE IF k < Len(SyncTypes) THEN "begin" ELSE "returned",
                   !.type = IF k < Len(SyncTypes) /\ ~escapes THEN SyncTypes[k + 1] ELSE t,
                   !.year = 0, !.count = 0, !.total_count = 0, !.checkpoints = <<>>,
                   !.fetched_current = FALSE]

\* sync_all moves on after sync type t returned or raised: the result is
\* recorded and the next type starts, or sync_all returns
AfterType(sy, t, result) ==
    LET k == CHOOSE i \in DOMAIN SyncTypes : SyncTypes[i] = t
    IN  [sy EXCEPT !.results = [@ EXCEPT ![t] = result],
                   !.pc = IF k < Len(SyncTypes) THEN "begin" ELSE "returned",
                   !.type = IF k < Len(SyncTypes) THEN SyncTypes[k + 1] ELSE t,
                   !.year = 0, !.count = 0, !.total_count = 0, !.checkpoints = <<>>,
                   !.fetched_current = FALSE]

(***************************************************************************)
(* Predictor: predict and _smart_baseline_predict (prediction/model.py),   *)
(* predict_party_line (prediction/baseline.py).  Confidences in 1/10000    *)
(***************************************************************************)
\* .limit(200) of the two baseline queries, scaled
RECENT_LIMIT == 2

\* round(x, 3) of a value in 1/10000
Round3(x) == 10 * ((x + 5) \div 10)

\* the votings the baselines read: find({}).sort("votingTime", -1).limit(200)
RecentVotings(coll) == Limit(SortTimeDesc(coll), RECENT_LIMIT)

\* party_votes of predict_party_line: the non-absent decisions of the party's
\* voters, voting by voting
RECURSIVE PartyVotes(_, _)
PartyVotes(docs, party) ==
    IF docs = <<>> THEN <<>>
    ELSE PartyDecisions(Head(docs).voters, party) \o PartyVotes(Tail(docs), party)

\* party_votes collected without the test on the decision
RECURSIVE AlignmentPartyVotesWithAbsent(_, _)
AlignmentPartyVotesWithAbsent(docs, party) ==
    IF docs = <<>> THEN <<>>
    ELSE LET mine == SelectSeq(Head(docs).voters, LAMBDA v : extract_party_code(v.faction) = party)
         IN  [i \in DOMAIN mine |-> mine[i].decision] \o AlignmentPartyVotesWithAbsent(Tail(docs), party)

\* party_votes of _smart_baseline_predict: the decisions of the alignment
\* party's voters that are not ABSENT (and not None)
AlignmentPartyVotes(docs, party) == PartyVotes(docs, party)

\* mp.get("stats", {}).get("partyAlignmentRate", 85.0)
AlignmentRate(mp) == IF mp.stats.present THEN mp.stats.partyAlignmentRate ELSE 8500

\* alignment_rate / 100.0 if alignment_rate else 0.85
BaselineConfidence(mp) == IF AlignmentRate(mp) # 0 THEN AlignmentRate(mp) ELSE 8500

NoResult == [prediction |-> None, confidence |-> 0, modelVersion |-> None]

\* the dict predict_party_line returns (prediction, confidence, modelVersion)
predict_party_line(coll, mp) ==
    LET party_votes == PartyVotes(RecentVotings(coll), mp.partyCode)
    IN  IF party_votes = <<>>
        THEN [prediction |-> "FOR", confidence |-> 5000, modelVersion |-> "baseline-v1"]
        ELSE [prediction |-> MostCommon(party_votes),
              confidence |-> Round3(Min2(BaselineConfidence(mp), 9900)),
              modelVersion |-> "baseline-v1"]

\* the dict _smart_baseline_predict returns on the alignment-party path
AlignmentResult(party_votes, mp) ==
    [prediction |-> MostCommon(party_votes),
     confidence |-> Round3(Min2(BaselineConfidence(mp), 9900)),
     modelVersion |-> "hybrid-baseline-v1"]

\* fr_alignments.get(member_uuid)
AlignParty(fr_alignments, member_uuid) ==
    IF member_uuid \in DOMAIN fr_alignments THEN fr_alignments[member_uuid] ELSE None

\* le.classes_ and the probability predict_proba gives the predicted class
\* (of three classes): any value the classifier can return
Classes == {"ABSTAIN", "AGAINST", "FOR"}

ProbaOutcomes == {3334, 9900, 9967, 10000}

\* round(confidence, 4)
Round4(x) == x

IdlePrediction ==
    [pc |-> "idle", mp |-> Mp(None, None, NoStats), align_party |-> None, result |-> NoResult]

(***************************************************************************)
(* Prediction log and its resolver: predict_mp (routers/predict.py),       *)
(* _parse_voting (sync/riigikogu.py), resolve_predictions (tasks/resolve)  *)
(***************************************************************************)
MaxPredictions == 2

HASH_SCAN_LIMIT == 50

\* "|".join(filter(None, parts)): the parts that are neither None nor empty;
\* two texts have the same sha256 digest when they are the same text
JoinedText(parts) == SelectSeq(parts, LAMBDA x : x # None /\ x # "")

Bill(title, description, fullText, draftUuid) ==
    [title |-> title, description |-> description, fullText |-> fullText, draftUuid |-> draftUuid]

_bill_hash(bill) == JoinedText(<<bill.title, bill.description, bill.fullText>>)

\* the bills predictions are asked for
Bills ==
    << Bill("Budget act", None, None, "D1"),
       Bill("Budget act", "Budget act", None, "D1"),
       Bill("Tax act", None, None, None) >>

\* a voting as GET /votings/{uuid} serves it; draft is the draft the voting
\* decided on, which the detail carries in no field that _parse_voting reads
RawVoter(u, f, d) == [uuid |-> u, faction |-> f, decision |-> d]

Detail(u, title, description, startDateTime, draft, voters) ==
    [uuid |-> u, title |-> title, description |-> description,
     startDateTime |-> startDateTime, draft |-> draft, voters |-> voters]

ResolveDetails ==
    << Detail("r1", None, "Budget act", <<2025, 6, 1, 10>>, "D1",
              << RawVoter("m1", F_RE, PyStr(<<"P", "O", "O", "L", "T">>)),
                 RawVoter("m4", F_K, PyDict(PyStr(<<"V", "A", "S", "T", "U">>), PyNone)) >>),
       Detail("r2", "Tax act", None, <<2025, 6, 2, 10>>, None,
              << RawVoter("m1", F_RE, PyStr(<<"v">>)) >>) >>

\* the document _parse_voting builds (the fields the model reads)
_parse_voting(detail, synced_at) ==
    [uuid |-> detail.uuid,
     title |-> IF detail.description # None /\ detail.description # "" THEN detail.description
               ELSE IF detail.title # None /\ detail.title # "" THEN detail.title ELSE "",
     description |-> detail.description,
     votingTime |-> detail.startDateTime,
     voters |-> [i \in DOMAIN detail.voters |->
                    Voter(detail.voters[i].uuid, detail.voters[i].faction,
                          normalize_decision(detail.voters[i].decision))],
     syncedAt |-> synced_at]

\* the document predict_mp inserts into prediction_log
LogEntry(mp, bill, predicted, predicted_at) ==
    [mpUuid |-> mp.memberUuid, draftUuid |-> bill.draftUuid, billHash |-> _bill_hash(bill),
     predicted |-> predicted, predictedAt |-> predicted_at,
     actual |-> None, correct |-> None, resolvedAt |-> -1]

\* _find_mp_decision
_find_mp_decision(voting, mp_uuid) ==
    LET mine == SelectSeq(voting.voters, LAMBDA v : v.memberUuid = mp_uuid)
    IN  IF mine = <<>> THEN None ELSE mine[1].decision

\* strategy 1: find_one({"relatedDraftUuid": draft_uuid, "voters.memberUuid": mp_uuid})
DraftMatches(coll, draft_uuid, mp_uuid) ==
    SelectSeq(coll, LAMBDA d : /\ "relatedDraftUuid" \in DOMAIN d
                               /\ d.relatedDraftUuid = draft_uuid
                               /\ \E i \in DOMAIN d.voters : d.voters[i].memberUuid = mp_uuid)

\* strategy 2: the votings of the member synced since the prediction, newest
\* first, whose title and description hash to the bill hash
HashMatches(coll, pred) ==
    LET mine == SelectSeq(coll, LAMBDA d : /\ \E i \in DOMAIN d.voters : d.voters[i].memberUuid = pred.mpUuid
                                           /\ d.syncedAt >= pred.predictedAt)
        scan == Limit(SortTimeDesc(mine), HASH_SCAN_LIMIT)
    IN  SelectSeq(scan, LAMBDA d : JoinedText(<<d.title, d.description>>) = pred.billHash)

\* the actual decision resolve_predictions finds for one unresolved entry
ActualDecision(coll, pred) ==
    LET by_draft == IF pred.draftUuid # None
                    THEN DraftMatches(coll, pred.draftUuid, pred.mpUuid) ELSE <<>>
        first == IF by_draft # <<>> THEN _find_mp_decision(by_draft[1], pred.mpUuid) ELSE None
        by_hash == HashMatches(coll, pred)
    IN  IF first # None THEN first
        ELSE IF by_hash # <<>> THEN _find_mp_decision(by_hash[1], pred.mpUuid)
        ELSE None

\* one pass of resolve_predictions over the log
ResolveAll(log, coll, at) ==
    [i \in DOMAIN log |->
        LET pred == log[i]
            actual == ActualDecision(coll, pred)
        IN  IF pred.actual # None \/ pred.mpUuid = None \/ actual = None THEN pred
            ELSE [pred EXCEPT !.actual = actual,
                              !.correct = IF actual = pred.predicted THEN "true" ELSE "false",
                              !.resolvedAt = at]]

(***************************************************************************)
(* State                                                                   *)
(***************************************************************************)
VARIABLES
    votings,            \* db.votings, in the collection's natural order
    mps,                \* db.mps
    model_state,        \* db.model_state, the document "current"
    _model,             \* prediction/model.py: the deployed model object or None
    _label_encoder,     \* prediction/model.py: TRUE when a LabelEncoder is set
    _model_version,     \* prediction/model.py
    _backtest_running,  \* routers/backtest.py
    job,                \* the coroutines of the learning loop: position and locals
    starts,             \* job starts so far
    reply,              \* the last answer of POST /backtest
    now,                \* datetime.now().year
    members,            \* db.members
    stenograms,         \* db.stenograms
    drafts,             \* db.drafts
    sync_progress,      \* db.sync_progress, one document per sync type
    syncer,             \* the sync_all coroutine of each runner: position and locals
    sync_runs,          \* sync runs started so far
    faults,             \* requests and database calls that failed so far
    upstream,           \* the votings the upstream API lists for every year
    twin,               \* votings and mps of a second deployment
    built,              \* the training set built on each deployment; fresh when
                        \* the statistics in mps were those of its votings
    frAlignments,       \* db.model_state, the field frAlignments of "current"
    prediction,         \* the predict coroutine: position, locals and result
    prediction_log,     \* db.prediction_log
    clock,              \* datetime.now(timezone.utc), counted in events
    call                \* a call of a pure function: its arguments and results

trainVars ==
    <<model_state, _model, _label_encoder, _model_version,
      _backtest_running, job, starts, reply>>

syncVars == <<now, members, stenograms, drafts, sync_progress, syncer, sync_runs, faults, upstream>>

leakVars == <<twin, built>>

predictVars == <<frAlignments, prediction>>

resolveVars == <<prediction_log, clock>>

callVars == <<call>>

vars == <<votings, mps, trainVars, syncVars, leakVars, predictVars, resolveVars, callVars>>

(***************************************************************************)
(* The learning loop: POST /backtest, _run_backtest, and the scheduler's   *)
(* _backtest and _retrain_model jobs                                       *)
(***************************************************************************)
\* background tasks added by trigger_backtest (two can be pending or running
\* at once), and the two scheduler jobs (APScheduler runs one instance of a
\* job at a time)
Tasks == {"task1", "task2"}

TrainProcs == Tasks \cup {"cron_backtest", "cron_retrain"}

IdleJob ==
    [pc |-> "idle", bt |-> [error |-> TRUE, overall |-> 0, total |-> 0],
     X_train |-> <<>>, X_test |-> <<>>, n_train |-> 0, cand |-> UnscoredCandidate,
     baseline_accuracy |-> 0, deployed |-> FALSE]

\* a run of the backtest job type that is under way
BacktestInFlight ==
    {p \in Tasks \cup {"cron_backtest"} : job[p].pc \notin {"idle", "queued"}}

\* return / raise out of the job: the finally block of _run_backtest clears
\* the flag
Finish(p) ==
    /\ job' = [job EXCEPT ![p] = IdleJob]
    /\ _backtest_running' = IF p \in Tasks THEN FALSE ELSE _backtest_running

\* POST /backtest (trigger_backtest)
trigger_backtest ==
    /\ starts < MaxStarts
    /\ IF _backtest_running
       THEN /\ reply' = [status |-> "already_running"]
            /\ UNCHANGED <<job, starts>>
       ELSE \E p \in {IF job["task1"].pc = "idle" THEN "task1" ELSE "task2"} :
            /\ job[p].pc = "idle"
            /\ job' = [job EXCEPT ![p] = [IdleJob EXCEPT !.pc = "queued"]]
            /\ starts' = starts + 1
            /\ reply' = [status |-> "started"]
    /\ UNCHANGED <<syncVars, leakVars, predictVars, resolveVars, callVars, votings, mps, model_state, _model, _label_encoder, _model_version, _backtest_running>>

\* the background task starts: _run_backtest sets the flag (lines 15-18)
_run_backtest(p) ==
    /\ p \in Tasks
    /\ job[p].pc = "queued"
    /\ _backtest_running' = TRUE
    /\ job' = [job EXCEPT ![p].pc = "bt_find"]
    /\ UNCHANGED <<syncVars, leakVars, predictVars, resolveVars, callVars, votings, mps, model_state, _model, _label_encoder, _model_version, starts, reply>>

\* the scheduler fires _backtest (scheduler.py lines 53-58)
_backtest ==
    /\ starts < MaxStarts
    /\ job["cron_backtest"].pc = "idle"
    /\ job' = [job EXCEPT !["cron_backtest"] = [IdleJob EXCEPT !.pc = "bt_find"]]
    /\ starts' = starts + 1
    /\ UNCHANGED <<syncVars, leakVars, predictVars, resolveVars, callVars, votings, mps, model_state, _model, _label_encoder, _model_version, _backtest_running, reply>>

\* the scheduler fires _retrain_model (scheduler.py lines 61-70)
_retrain_model ==
    /\ starts < MaxStarts
    /\ job["cron_retrain"].pc = "idle"
    /\ job' = [job EXCEPT !["cron_retrain"] = [IdleJob EXCEPT !.pc = "tm_train"]]
    /\ starts' = starts + 1
    /\ UNCHANGED <<syncVars, leakVars, predictVars, resolveVars, callVars, votings, mps, model_state, _model, _label_encoder, _model_version, _backtest_running, reply>>

\* run_backtest: the find over the post-cutoff votings returns, the result is
\* computed; with no such voting it returns an error and writes nothing
run_backtest_find(p) ==
    /\ job[p].pc = "bt_find"
    /\ LET res == run_backtest_result(votings)
       IN  IF ~res.error
           THEN /\ job' = [job EXCEPT ![p].pc = "bt_update", ![p].bt = res]
                /\ UNCHANGED _backtest_running
           ELSE IF p \in Tasks
           THEN /\ job' = [job EXCEPT ![p].pc = "tm_train"]
                /\ UNCHANGED _backtest_running
           ELSE Finish(p)
    /\ UNCHANGED <<syncVars, leakVars, predictVars, resolveVars, callVars, votings, mps, model_state, _model, _label_encoder, _model_version, starts, reply>>

\* run_backtest: the update of model_state is applied; _run_backtest goes on
\* to train_model
run_backtest_update(p) ==
    /\ job[p].pc = "bt_update"
    /\ model_state' = SetFields(model_state, BacktestFields(p, job[p].bt))
    /\ IF p \in Tasks
       THEN /\ job' = [job EXCEPT ![p].pc = "tm_train"]
            /\ UNCHANGED _backtest_running
       ELSE Finish(p)
    /\ UNCHANGED <<syncVars, leakVars, predictVars, resolveVars, callVars, votings, mps, _model, _label_encoder, _model_version, starts, reply>>

\* train_model line 49: the training set.  (reset_training_caches, which the
\* callers import from prediction/features.py, is not part of the listed
\* sources; it touches none of the state below.)
train_model_build_train(p) ==
    /\ job[p].pc = "tm_train"
    /\ job' = [job EXCEPT ![p].pc = "tm_test",
                          ![p].X_train = _build_training_data(votings, mps, model_cutoff_date, <<>>)]
    /\ UNCHANGED <<syncVars, leakVars, predictVars, resolveVars, callVars, votings, mps, model_state, _model, _label_encoder, _model_version,
                   _backtest_running, starts, reply>>

\* train_model lines 50-170: the evaluation set, the early return on too few
\* training samples, fitting and scoring
train_model_build_test(p) ==
    /\ job[p].pc = "tm_test"
    /\ LET X_test == _build_training_data(votings, mps, <<>>, model_cutoff_date)
       IN  IF Len(job[p].X_train) < MIN_TRAIN_SAMPLES
           THEN Finish(p)
           ELSE /\ \E cand \in (IF Len(X_test) > 0 THEN TrainOutcomes ELSE {UnscoredCandidate}) :
                      job' = [job EXCEPT ![p].pc = "tm_gate", ![p].X_test = X_test, ![p].cand = cand]
                /\ UNCHANGED _backtest_running
    /\ UNCHANGED <<syncVars, leakVars, predictVars, resolveVars, callVars, votings, mps, model_state, _model, _label_encoder, _model_version, starts, reply>>

\* train_model lines 173-246: the read of the baseline returns, then the
\* promotion gate and update_fields.  The sample lists are not read after
\* this point except for their lengths, so the model drops them here.
train_model_gate(p) ==
    /\ job[p].pc = "tm_gate"
    /\ LET baseline_accuracy == ReadBaselineAccuracy(model_state)
           deploy == Deploys(job[p].cand.test_accuracy, baseline_accuracy)
       IN  /\ _model' = IF deploy THEN job[p].cand.version ELSE None
           /\ _label_encoder' = deploy
           /\ _model_version' = IF deploy THEN job[p].cand.version ELSE "baseline-v1"
           /\ job' = [job EXCEPT ![p].pc = "tm_update",
                                 ![p].baseline_accuracy = baseline_accuracy,
                                 ![p].deployed = (_model' # None),
                                 ![p].n_train = Len(job[p].X_train),
                                 ![p].X_train = <<>>,
                                 ![p].X_test = <<>>]
    /\ UNCHANGED <<syncVars, leakVars, predictVars, resolveVars, callVars, votings, mps, model_state, _backtest_running, starts, reply>>

\* train_model lines 248-263: the update of model_state is applied
train_model_update(p) ==
    /\ job[p].pc = "tm_update"
    /\ model_state' =
          PushTrend(SetFields(model_state,
                              TrainUpdateFields(p, job[p].n_train, job[p].cand,
                                                job[p].baseline_accuracy, job[p].deployed)),
                    Round1(job[p].cand.test_accuracy))
    /\ Finish(p)
    /\ UNCHANGED <<syncVars, leakVars, predictVars, resolveVars, callVars, votings, mps, _model, _label_encoder, _model_version, starts, reply>>

\* a database call of the job raises
job_raises(p) ==
    /\ job[p].pc \in {"bt_find", "bt_update", "tm_train", "tm_test", "tm_gate", "tm_update"}
    /\ Finish(p)
    /\ UNCHANGED <<syncVars, leakVars, predictVars, resolveVars, callVars, votings, mps, model_state, _model, _label_encoder, _model_version, starts, reply>>

\* a sync running beside the learning loop stores a voting the upstream API
\* lists and the collection does not hold yet
sync_upserts_voting ==
    /\ \E i \in DOMAIN VotingPool :
          /\ \A k \in DOMAIN votings : votings[k].uuid # VotingPool[i].uuid
          /\ votings' = Upsert(votings, VotingPool[i])
    /\ UNCHANGED <<syncVars, leakVars, predictVars, resolveVars, callVars, mps, trainVars>>

\* the ingestion client at rest, on an empty database
Runners == {"cron"}

IdleSyncer ==
    [pc |-> "idle", type |-> "members", year |-> 0, current_year |-> 0, count |-> 0,
     total_count |-> 0, checkpoints |-> <<>>, fetched_current |-> FALSE,
     cut |-> FALSE, paused |-> FALSE,
     results |-> [t \in Range(SyncTypes) |-> Unset], log |-> <<>>]

SyncStateAtRest ==
    /\ now = EPOCH_YEAR
    /\ members = <<>>
    /\ stenograms = <<>>
    /\ drafts = <<>>
    /\ sync_progress = [t \in Range(SyncTypes) |-> NoProgress]
    /\ syncer = [r \in Runners |-> IdleSyncer]
    /\ sync_runs = 0
    /\ faults = 0

SyncAtRest ==
    /\ SyncStateAtRest
    /\ upstream = SparseUpstream

Sides == {"a", "b"}

LeakAtRest ==
    /\ twin = [votings |-> <<>>, mps |-> <<>>]
    /\ built = [s \in Sides |-> [done |-> FALSE, fresh |-> FALSE, X |-> <<>>]]

PredictAtRest ==
    /\ frAlignments = <<>>
    /\ prediction = IdlePrediction

ResolveAtRest ==
    /\ prediction_log = <<>>
    /\ clock = 0
    /\ call = [stage |-> "none"]

TrainMps ==
    << Mp("m1", "RE", NoStats), Mp("m2", "RE", NoStats), Mp("m3", "RE", NoStats), Mp("m4", "K", NoStats) >>

InitTrain ==
    /\ votings \in {SubSeq(VotingPool, 1, n) : n \in 2..Len(VotingPool)}
    /\ mps = compute_mp_stats(votings, TrainMps)
    /\ model_state = NoModelState
    /\ _model = None
    /\ _label_encoder = FALSE
    /\ _model_version = "untrained"
    /\ _backtest_running = FALSE
    /\ job = [p \in TrainProcs |-> IdleJob]
    /\ starts = 0
    /\ reply = [status |-> "none"]
    /\ SyncAtRest
    /\ LeakAtRest
    /\ PredictAtRest
    /\ ResolveAtRest

NextTrain ==
    \/ trigger_backtest
    \/ \E p \in Tasks : _run_backtest(p)
    \/ _backtest
    \/ _retrain_model
    \/ \E p \in TrainProcs : run_backtest_find(p)
    \/ \E p \in TrainProcs : run_backtest_update(p)
    \/ \E p \in TrainProcs : train_model_build_train(p)
    \/ \E p \in TrainProcs : train_model_build_test(p)
    \/ \E p \in TrainProcs : train_model_gate(p)
    \/ \E p \in TrainProcs : train_model_update(p)
    \/ \E p \in TrainProcs : job_raises(p)

SpecTrain == InitTrain /\ [][NextTrain]_vars

(***************************************************************************)
(* The trainer beside a running sync: _retrain_model on a votings          *)
(* collection that grows while train_model reads it                        *)
(***************************************************************************)
InitSplit ==
    /\ votings = <<>>
    /\ mps = TrainMps
    /\ model_state = NoModelState
    /\ _model = None
    /\ _label_encoder = FALSE
    /\ _model_version = "untrained"
    /\ _backtest_running = FALSE
    /\ job = [p \in TrainProcs |-> IdleJob]
    /\ starts = 0
    /\ reply = [status |-> "none"]
    /\ SyncAtRest
    /\ LeakAtRest
    /\ PredictAtRest
    /\ ResolveAtRest

NextSplit ==
    \/ sync_upserts_voting
    \/ _retrain_model
    \/ train_model_build_train("cron_retrain")
    \/ train_model_build_test("cron_retrain")
    \/ train_model_gate("cron_retrain")
    \/ train_model_update("cron_retrain")
    \/ job_raises("cron_retrain")

SpecSplit == InitSplit /\ [][NextSplit]_vars

(***************************************************************************)
(* The metabolic loop: the scheduler's _sync_data job running sync_all     *)
(***************************************************************************)
DataSize == Len(members) + Len(votings) + Len(stenograms) + Len(drafts)

\* what the listing request of a type and year returns
UpstreamRecords(type, year) == UpstreamListing(type, year, upstream)

Collection(type) ==
    CASE type = "votings" -> votings [] type = "stenograms" -> stenograms [] type = "drafts" -> drafts

\* an entry of the run's log: sync type t returned or raised, and whether its
\* year loop had issued the fetch of the current year
Event(t, ev, fetched_current) == [type |-> t, ev |-> ev, fetched_current |-> fetched_current]

\* the scheduler fires _sync_data; sync_all starts with the members
_sync_data(r) ==
    /\ sync_runs < MaxSyncRuns
    /\ syncer[r].pc = "idle"
    /\ syncer' = [syncer EXCEPT ![r] = [IdleSyncer EXCEPT !.pc = "begin"]]
    /\ sync_runs' = sync_runs + 1
    /\ UNCHANGED <<votings, mps, trainVars, leakVars, predictVars, resolveVars, callVars, upstream, now, members, stenograms, drafts, sync_progress, faults>>

\* sync_members / sync_votings / sync_stenograms / sync_drafts: the progress
\* document is set to running; a year type then reads the clock and enters
\* its year loop
sync_begin(r) ==
    LET sy == syncer[r]
    IN  /\ sy.pc = "begin"
        /\ sync_progress' = [sync_progress EXCEPT ![sy.type] =
               _save_progress(@, [status |-> "running", error |-> FALSE])]
        /\ syncer' = [syncer EXCEPT ![r] =
               IF sy.type = "members"
               THEN [sy EXCEPT !.pc = "list"]
               ELSE [sy EXCEPT !.pc = "loop", !.current_year = now, !.year = EPOCH_YEAR]]
        /\ UNCHANGED <<votings, mps, trainVars, leakVars, predictVars, resolveVars, callVars, upstream, now, members, stenograms, drafts, sync_runs, faults>>

\* sync_members lines 232-262: the listing and the loop over the members
sync_members_list(r) ==
    LET sy == syncer[r]
    IN  /\ sy.pc = "list"
        /\ \E list \in GetOutcomes, details \in [DOMAIN UpstreamMembers -> GetOutcomes] :
              /\ faults + FaultsIn(list, details) <= MaxFaults
              /\ faults' = faults + FaultsIn(list, details)
              /\ LET st == StoreMembers(UpstreamMembers, details,
                                         [members |-> members, mps |-> mps, count |-> 0, raised |-> FALSE], 1)
                  IN  CASE list = "raise" ->
                              /\ syncer' = [syncer EXCEPT ![r].pc = "fail"]
                              /\ UNCHANGED <<members, mps>>
                        [] list = "none" ->
                              /\ syncer' = [syncer EXCEPT ![r].pc = "end"]
                              /\ UNCHANGED <<members, mps>>
                        [] list = "json" ->
                              /\ members' = st.members
                              /\ mps' = st.mps
                              /\ syncer' = [syncer EXCEPT ![r].pc = IF st.raised THEN "fail" ELSE "end",
                                                          ![r].total_count = st.count]
        /\ UNCHANGED <<votings, trainVars, leakVars, predictVars, resolveVars, callVars, upstream, now, stenograms, drafts, sync_progress, sync_runs>>

\* the head of the year loop: past the last year the type completes; a past
\* year with a completed checkpoint is skipped; any other year is fetched
year_loop(r) ==
    LET sy == syncer[r]
    IN  /\ sy.pc = "loop"
        /\ syncer' = [syncer EXCEPT ![r] =
               IF sy.year > sy.current_year THEN [sy EXCEPT !.pc = "end"]
               ELSE IF SkipsYear(sy.year, sy.current_year,
                                 _is_year_completed(sync_progress[sy.type], sy.year))
               THEN [sy EXCEPT !.year = @ + 1]
               ELSE [sy EXCEPT !.pc = "fetch",
                               !.fetched_current = @ \/ sy.year = sy.current_year]]
        /\ UNCHANGED <<votings, mps, trainVars, leakVars, predictVars, resolveVars, callVars, upstream, now, members, stenograms, drafts, sync_progress, sync_runs, faults>>

\* _sync_votings_year / _sync_stenograms_year / _sync_drafts_year
sync_year(r) ==
    LET sy == syncer[r]
        listed == UpstreamRecords(sy.type, sy.year)
    IN  /\ sy.pc = "fetch"
        /\ \E list \in GetOutcomes, details \in [DOMAIN listed -> GetOutcomes] :
              /\ faults + FaultsIn(list, details) <= MaxFaults
              /\ faults' = faults + FaultsIn(list, details)
              /\ LET none == [coll |-> Collection(sy.type), count |-> 0, raised |-> FALSE,
                               tripped |-> FALSE, cut |-> FALSE,
                               other_size |-> DataSize - Len(Collection(sy.type))]
                      st == IF list = "json"
                            THEN StoreRecords(sy.type, listed, details, none, 1)
                            ELSE [none EXCEPT !.raised = list = "raise"]
                  IN  /\ votings' = IF sy.type = "votings" THEN st.coll ELSE votings
                      /\ stenograms' = IF sy.type = "stenograms" THEN st.coll ELSE stenograms
                      /\ drafts' = IF sy.type = "drafts" THEN st.coll ELSE drafts
                      /\ syncer' = [syncer EXCEPT ![r].pc = IF st.raised THEN "fail" ELSE "cp_read",
                                                  ![r].count = st.count,
                                                  ![r].cut = st.cut,
                                                  ![r].paused = @ \/ st.tripped]
        /\ UNCHANGED <<mps, trainVars, leakVars, predictVars, resolveVars, callVars, upstream, now, members, sync_progress, sync_runs>>

\* _save_checkpoint: _get_progress returns the stored checkpoints
save_checkpoint_read(r) ==
    LET sy == syncer[r]
    IN  /\ sy.pc = "cp_read"
        /\ syncer' = [syncer EXCEPT ![r].pc = "cp_write",
                                    ![r].total_count = @ + sy.count,
                                    ![r].checkpoints = sync_progress[sy.type].checkpoints]
        /\ UNCHANGED <<votings, mps, trainVars, leakVars, predictVars, resolveVars, callVars, upstream, now, members, stenograms, drafts, sync_progress, sync_runs, faults>>

\* _save_checkpoint: the changed list is written back
save_checkpoint_write(r) ==
    LET sy == syncer[r]
    IN  /\ sy.pc = "cp_write"
        /\ sync_progress' = [sync_progress EXCEPT ![sy.type] =
               _save_progress(@, [checkpoints |->
                   _save_checkpoint(sy.checkpoints, sy.year, sy.count,
                                    CompletedFlag(sy.year, sy.current_year))])]
        /\ syncer' = [syncer EXCEPT ![r].pc = "size", ![r].checkpoints = <<>>]
        /\ UNCHANGED <<votings, mps, trainVars, leakVars, predictVars, resolveVars, callVars, upstream, now, members, stenograms, drafts, sync_runs, faults>>

\* the size guard after a year: the loop goes on, or the type pauses
check_size(r) ==
    LET sy == syncer[r]
    IN  /\ sy.pc = "size"
        /\ syncer' = [syncer EXCEPT ![r] =
               IF _check_db_size(DataSize)
               THEN [sy EXCEPT !.pc = "loop", !.year = @ + 1, !.count = 0, !.cut = FALSE]
               ELSE [sy EXCEPT !.pc = "end", !.count = 0, !.cut = FALSE, !.paused = TRUE]]
        /\ UNCHANGED <<votings, mps, trainVars, leakVars, predictVars, resolveVars, callVars, upstream, now, members, stenograms, drafts, sync_progress, sync_runs, faults>>

\* the type completes: status "completed", and the count goes to sync_all
sync_end(r) ==
    LET sy == syncer[r]
    IN  /\ sy.pc = "end"
        /\ sync_progress' = [sync_progress EXCEPT ![sy.type] =
               _save_progress(@, [status |-> "completed", totalRecords |-> sy.total_count])]
        /\ syncer' = [syncer EXCEPT ![r] =
               AfterType([sy EXCEPT !.log = Append(@, Event(sy.type, "returned", sy.fetched_current))],
                         sy.type, Count(sy.total_count))]
        /\ UNCHANGED <<votings, mps, trainVars, leakVars, predictVars, resolveVars, callVars, upstream, now, members, stenograms, drafts, sync_runs, faults>>

\* the except block of the type: status "error", and the exception is raised
\* again to sync_all
sync_fail(r) ==
    LET sy == syncer[r]
    IN  /\ sy.pc = "fail"
        /\ sync_progress' = [sync_progress EXCEPT ![sy.type] =
               _save_progress(@, [status |-> "error", error |-> TRUE])]
        /\ syncer' = [syncer EXCEPT ![r] =
               AfterType([sy EXCEPT !.log = Append(@, Event(sy.type, "raised", sy.fetched_current))],
                         sy.type, ErrorString)]
        /\ UNCHANGED <<votings, mps, trainVars, leakVars, predictVars, resolveVars, callVars, upstream, now, members, stenograms, drafts, sync_runs, faults>>

\* a database call of the type raises: inside the try block the except block
\* runs next; the first _save_progress and the one of the except block are
\* outside it, and the exception goes straight to sync_all
db_raises(r) ==
    LET sy == syncer[r]
    IN  /\ faults < MaxFaults
        /\ faults' = faults + 1
        /\ \/ sy.pc \in {"begin", "cp_read", "cp_write", "end", "fail"}
           \/ sy.pc = "loop" /\ sy.year < sy.current_year
        /\ syncer' = [syncer EXCEPT ![r] =
               IF sy.pc \in {"begin", "fail"}
               THEN AfterType([sy EXCEPT !.log = Append(@, Event(sy.type, "raised", sy.fetched_current))],
                              sy.type, ErrorString)
               ELSE [sy EXCEPT !.pc = "fail"]]
        /\ UNCHANGED <<votings, mps, trainVars, leakVars, predictVars, resolveVars, callVars, upstream, now, members, stenograms, drafts, sync_progress, sync_runs>>

\* _sync_data after sync_all: compute_mp_stats, then the job ends; an
\* exception out of sync_all is logged and the job ends
sync_finish(r) ==
    LET sy == syncer[r]
    IN  /\ sy.pc \in {"returned", "raised"}
        /\ mps' = IF sy.pc = "returned" THEN compute_mp_stats(votings, mps) ELSE mps
        /\ syncer' = [syncer EXCEPT ![r] = IdleSyncer]
        /\ UNCHANGED <<votings, trainVars, leakVars, predictVars, resolveVars, callVars, upstream, now, members, stenograms, drafts, sync_progress, sync_runs, faults>>

\* the calendar year changes
new_year ==
    /\ now < MaxYear
    /\ now' = now + 1
    /\ UNCHANGED <<votings, mps, trainVars, leakVars, predictVars, resolveVars, callVars, upstream, members, stenograms, drafts, sync_progress, syncer, sync_runs, faults>>

TrainAtRest ==
    /\ model_state = NoModelState
    /\ _model = None
    /\ _label_encoder = FALSE
    /\ _model_version = "untrained"
    /\ _backtest_running = FALSE
    /\ job = [p \in TrainProcs |-> IdleJob]
    /\ starts = 0
    /\ reply = [status |-> "none"]

InitSync ==
    /\ votings = <<>>
    /\ mps = <<>>
    /\ TrainAtRest
    /\ SyncAtRest
    /\ LeakAtRest
    /\ PredictAtRest
    /\ ResolveAtRest

NextSync ==
    \/ \E r \in Runners : _sync_data(r)
    \/ \E r \in Runners : sync_begin(r)
    \/ \E r \in Runners : sync_members_list(r)
    \/ \E r \in Runners : year_loop(r)
    \/ \E r \in Runners : sync_year(r)
    \/ \E r \in Runners : save_checkpoint_read(r)
    \/ \E r \in Runners : save_checkpoint_write(r)
    \/ \E r \in Runners : check_size(r)
    \/ \E r \in Runners : sync_end(r)
    \/ \E r \in Runners : sync_fail(r)
    \/ \E r \in Runners : db_raises(r)
    \/ \E r \in Runners : sync_finish(r)
    \/ new_year

SpecSync == InitSync /\ [][NextSync]_vars

\* the same loop against an upstream with several votings a year
InitGuard ==
    /\ votings = <<>>
    /\ mps = <<>>
    /\ TrainAtRest
    /\ SyncStateAtRest
    /\ upstream = BusyUpstream
    /\ LeakAtRest
    /\ PredictAtRest
    /\ ResolveAtRest

SpecGuard == InitGuard /\ [][NextSync]_vars

(***************************************************************************)
(* Two deployments side by side: the same votings before the cutoff, each  *)
(* syncing votings at or after it, refreshing its statistics and building  *)
(* its training set                                                        *)
(***************************************************************************)
DbOf(s) == IF s = "a" THEN [votings |-> votings, mps |-> mps] ELSE twin

SetDb(s, db) ==
    IF s = "a"
    THEN votings' = db.votings /\ mps' = db.mps /\ UNCHANGED twin
    ELSE twin' = db /\ UNCHANGED <<votings, mps>>

\* the votings of the pool that the cutoff query of the backtest matches
PostCutoffPool == PostCutoff(VotingPool)

\* _sync_votings_year: a voting dated at or after the cutoff is stored
twin_upserts_voting(s) ==
    /\ \E i \in DOMAIN PostCutoffPool :
          /\ \A k \in DOMAIN DbOf(s).votings : DbOf(s).votings[k].uuid # PostCutoffPool[i].uuid
          /\ SetDb(s, [DbOf(s) EXCEPT !.votings = Upsert(@, PostCutoffPool[i])])
    /\ UNCHANGED <<built, trainVars, syncVars, predictVars, resolveVars, callVars>>

\* _sync_data: compute_mp_stats after sync_all
twin_compute_mp_stats(s) ==
    /\ SetDb(s, [DbOf(s) EXCEPT !.mps = compute_mp_stats(DbOf(s).votings, @)])
    /\ UNCHANGED <<built, trainVars, syncVars, predictVars, resolveVars, callVars>>

\* train_model: X_train, y_train = _build_training_data(db, before_date=cutoff)
twin_build_training_data(s) ==
    /\ ~built[s].done
    /\ built' = [built EXCEPT ![s] =
                    [done |-> TRUE,
                     fresh |-> DbOf(s).mps = compute_mp_stats(DbOf(s).votings, DbOf(s).mps),
                     X |-> _build_training_data(DbOf(s).votings, DbOf(s).mps, model_cutoff_date, <<>>)]]
    /\ UNCHANGED <<votings, mps, twin, trainVars, syncVars, predictVars, resolveVars, callVars>>

InitLeak ==
    /\ votings = SelectSeq(VotingPool, LAMBDA d : ~MatchGte(d.votingTime, model_cutoff_date))
    /\ mps = TrainMps
    /\ twin = [votings |-> votings, mps |-> mps]
    /\ built = [s \in Sides |-> [done |-> FALSE, fresh |-> FALSE, X |-> <<>>]]
    /\ TrainAtRest
    /\ SyncAtRest
    /\ PredictAtRest
    /\ ResolveAtRest

NextLeak ==
    \/ \E s \in Sides : twin_upserts_voting(s)
    \/ \E s \in Sides : twin_compute_mp_stats(s)
    \/ \E s \in Sides : twin_build_training_data(s)

SpecLeak == InitLeak /\ [][NextLeak]_vars

(***************************************************************************)
(* The predictor beside a running sync                                     *)
(***************************************************************************)
PredictMps ==
    << Mp("m1", "RE", NoStats), Mp("m4", "K", NoStats), Mp("m5", "FR", NoStats), Mp("m6", "FR", NoStats) >>

\* predict, up to its first read of the votings: the trained-model path
\* returns; the baseline picks its path from the member's party and the
\* recorded alignment party
predict(i) ==
    /\ prediction.pc \in {"idle", "returned"}
    /\ LET mp == mps[i]
           align_party == AlignParty(frAlignments, mp.memberUuid)
       IN  IF _model # None /\ _label_encoder
           THEN \E label \in Classes, proba \in ProbaOutcomes :
                    prediction' = [pc |-> "returned", mp |-> mp, align_party |-> None,
                                   result |-> [prediction |-> label, confidence |-> Round4(proba),
                                               modelVersion |-> _model_version]]
           ELSE IF mp.partyCode # "FR"
           THEN prediction' = [pc |-> "party_line", mp |-> mp, align_party |-> None, result |-> NoResult]
           ELSE IF align_party = None
           THEN prediction' = [pc |-> "party_line", mp |-> mp, align_party |-> None, result |-> NoResult]
           ELSE prediction' = [pc |-> "alignment", mp |-> mp, align_party |-> align_party, result |-> NoResult]
    /\ UNCHANGED <<votings, mps, frAlignments, trainVars, syncVars, leakVars, resolveVars, callVars>>

\* _smart_baseline_predict: the alignment party's votes in the recent votings
smart_baseline_alignment ==
    /\ prediction.pc = "alignment"
    /\ LET party_votes == AlignmentPartyVotes(RecentVotings(votings), prediction.align_party)
       IN  IF party_votes = <<>>
           THEN prediction' = [prediction EXCEPT !.pc = "party_line"]
           ELSE prediction' = [prediction EXCEPT !.pc = "returned",
                                                 !.result = AlignmentResult(party_votes, prediction.mp)]
    /\ UNCHANGED <<votings, mps, frAlignments, trainVars, syncVars, leakVars, resolveVars, callVars>>

\* predict_party_line called by _smart_baseline_predict
party_line_returns ==
    /\ prediction.pc = "party_line"
    /\ prediction' = [prediction EXCEPT !.pc = "returned",
                                        !.result = predict_party_line(votings, prediction.mp)]
    /\ UNCHANGED <<votings, mps, frAlignments, trainVars, syncVars, leakVars, resolveVars, callVars>>

\* _sync_data: compute_mp_stats after sync_all
sync_computes_mp_stats ==
    /\ mps' = compute_mp_stats(votings, mps)
    /\ UNCHANGED <<votings, trainVars, syncVars, leakVars, predictVars, resolveVars, callVars>>

InitPredict ==
    /\ votings = <<>>
    /\ mps = PredictMps
    /\ model_state = NoModelState
    /\ \/ _model = None /\ _label_encoder = FALSE /\ _model_version = "baseline-v1"
       \/ _model = "logistic-v1" /\ _label_encoder = TRUE /\ _model_version = "logistic-v1"
    /\ _backtest_running = FALSE
    /\ job = [p \in TrainProcs |-> IdleJob]
    /\ starts = 0
    /\ reply = [status |-> "none"]
    /\ frAlignments = ("m5" :> "K")
    /\ prediction = IdlePrediction
    /\ SyncAtRest
    /\ LeakAtRest
    /\ ResolveAtRest

NextPredict ==
    \/ sync_upserts_voting
    \/ sync_computes_mp_stats
    \/ \E i \in DOMAIN mps : predict(i)
    \/ smart_baseline_alignment
    \/ party_line_returns

SpecPredict == InitPredict /\ [][NextPredict]_vars

(***************************************************************************)
(* Prediction resolution: predictions logged, votings synced, and the      *)
(* scheduler's _resolve_predictions job                                    *)
(***************************************************************************)
\* POST /predict/{slug} on a cache miss: the entry predict_mp logs; predicted
\* is whatever predict returned
predict_mp ==
    /\ Len(prediction_log) < MaxPredictions
    /\ \E i \in DOMAIN mps, b \in DOMAIN Bills, predicted \in {"FOR", "AGAINST"} :
          prediction_log' = Append(prediction_log, LogEntry(mps[i], Bills[b], predicted, clock))
    /\ clock' = clock + 1
    /\ UNCHANGED <<votings, mps, trainVars, syncVars, leakVars, predictVars, callVars>>

\* _sync_votings_year: a voting not stored yet is fetched, parsed and upserted
sync_parses_voting ==
    /\ \E i \in DOMAIN ResolveDetails :
          /\ \A k \in DOMAIN votings : votings[k].uuid # ResolveDetails[i].uuid
          /\ votings' = Upsert(votings, _parse_voting(ResolveDetails[i], clock))
    /\ clock' = clock + 1
    /\ UNCHANGED <<mps, prediction_log, trainVars, syncVars, leakVars, predictVars, callVars>>

\* _resolve_predictions: resolve_predictions over the unresolved entries
resolve_predictions ==
    /\ prediction_log' = ResolveAll(prediction_log, votings, clock)
    /\ UNCHANGED <<votings, mps, clock, trainVars, syncVars, leakVars, predictVars, callVars>>

InitResolve ==
    /\ votings = <<>>
    /\ mps = << Mp("m1", "RE", NoStats), Mp("m4", "K", NoStats) >>
    /\ prediction_log = <<>>
    /\ clock = 0
    /\ call = [stage |-> "none"]
    /\ TrainAtRest
    /\ SyncAtRest
    /\ LeakAtRest
    /\ PredictAtRest

NextResolve ==
    \/ predict_mp
    \/ sync_parses_voting
    \/ resolve_predictions

SpecResolve == InitResolve /\ [][NextResolve]_vars

(***************************************************************************)
(* Calls of the pure functions of sync/riigikogu.py                        *)
(***************************************************************************)
AllAtRest ==
    /\ votings = <<>>
    /\ mps = <<>>
    /\ TrainAtRest
    /\ SyncAtRest
    /\ LeakAtRest
    /\ PredictAtRest
    /\ prediction_log = <<>>
    /\ clock = 0

NoDb == <<votings, mps, trainVars, syncVars, leakVars, predictVars, resolveVars>>

\* the spellings of a token: as written, lower case, capitalised, and with
\* blanks around it
Spellings(cs) ==
    {cs, StrLower(cs), <<cs[1]>> \o StrLower(Tail(cs)), <<" ">> \o cs \o <<" ">>}

SupportedTokens == UNION {Spellings(DECISION_MAP[i][1]) : i \in DOMAIN DECISION_MAP}

UnknownStrings == {<<"U", "N", "K", "N", "O", "W", "N">>, <<"J", "A", "H">>, <<"V", "o", "t", "e", "D", "e", "c", "i", "s", "i", "o", "n", ".", "F", "O", "R">>, <<>>}

\* the arguments normalize_decision is called with: None, a token, a token
\* carried as the code or as the value of a dict, and strings it does not know
DecisionInputs ==
    {PyNone}
    \cup {PyStr(cs) : cs \in SupportedTokens \cup UnknownStrings}
    \cup {PyDict(PyStr(cs), PyNone) : cs \in SupportedTokens \cup UnknownStrings}
    \cup {PyDict(PyNone, PyStr(cs)) : cs \in SupportedTokens \cup UnknownStrings}
    \cup {PyDict(PyNone, PyNone)}

\* the token an argument carries, <<>> when it carries none
TokenOf(raw) ==
    IF raw.t = "str" THEN raw.s
    ELSE IF raw.t = "dict" /\ Truthy(raw.code) THEN raw.code.s
    ELSE IF raw.t = "dict" /\ Truthy(raw.value) THEN raw.value.s
    ELSE <<>>

\* d = normalize_decision(raw)
normalize_once ==
    /\ call.stage = "input"
    /\ call' = [call EXCEPT !.stage = "once", !.once = normalize_decision(call.raw)]
    /\ UNCHANGED NoDb

\* normalize_decision(d), d the VoteDecision member the first call returned
normalize_twice ==
    /\ call.stage = "once"
    /\ call' = [call EXCEPT !.stage = "twice", !.twice = normalize_decision(PyEnum(call.once))]
    /\ UNCHANGED NoDb

\* the arguments extract_party_code is called with: None, the empty string,
\* the codes, and faction labels
PartyInputs == {None, ""} \cup VALID_PARTY_CODES \cup {F_RE, F_K, F_SDE, F_FR}

\* code = extract_party_code(faction_name)
resolve_party_once ==
    /\ call.stage = "party_input"
    /\ call' = [call EXCEPT !.stage = "party_once", !.once = extract_party_code(call.raw)]
    /\ UNCHANGED NoDb

\* extract_party_code(code)
resolve_party_twice ==
    /\ call.stage = "party_once"
    /\ call' = [call EXCEPT !.stage = "party_twice", !.twice = extract_party_code(call.once)]
    /\ UNCHANGED NoDb

InitNormalize ==
    /\ AllAtRest
    /\ \/ \E raw \in DecisionInputs :
             call = [stage |-> "input", raw |-> raw, once |-> None, twice |-> None]
       \/ \E raw \in PartyInputs :
             call = [stage |-> "party_input", raw |-> raw, once |-> None, twice |-> None]

NextNormalize ==
    \/ normalize_once
    \/ normalize_twice
    \/ resolve_party_once
    \/ resolve_party_twice

SpecNormalize == InitNormalize /\ [][NextNormalize]_vars

\* slug = make_slug(member["firstName"], member["lastName"])
slug_member ==
    /\ call.stage = "slug_input"
    /\ call' = [call EXCEPT !.stage = "slug_done", !.slug = make_slug(call.first_name, call.last_name)]
    /\ UNCHANGED NoDb

\* the same call again
slug_member_again ==
    /\ call.stage = "slug_done"
    /\ call' = [call EXCEPT !.stage = "slug_again", !.again = make_slug(call.first_name, call.last_name)]
    /\ UNCHANGED NoDb

InitSlug ==
    /\ AllAtRest
    /\ \E f \in FirstNames, l \in LastNames :
          call = [stage |-> "slug_input", first_name |-> f, last_name |-> l, slug |-> <<>>, again |-> <<>>]

NextSlug == slug_member \/ slug_member_again

SpecSlug == InitSlug /\ [][NextSlug]_vars

\* cohesion = _compute_party_cohesion(voting, party_code)
compute_party_cohesion ==
    /\ call.stage = "cohesion_input"
    /\ call' = [call EXCEPT !.stage = "cohesion_done",
                            !.cohesion = _compute_party_cohesion(call.voting, call.party_code)]
    /\ UNCHANGED NoDb

\* the same voting seen from the other party of its voters
compute_other_party_cohesion ==
    /\ call.stage = "cohesion_done"
    /\ call.party_code = "RE"
    /\ call' = [call EXCEPT !.party_code = "K",
                            !.cohesion = _compute_party_cohesion(call.voting, "K")]
    /\ UNCHANGED NoDb

InitCohesion ==
    /\ AllAtRest
    /\ \E v \in CohesionVotings :
          call = [stage |-> "cohesion_input", voting |-> v, party_code |-> "RE",
                  cohesion |-> [aligned |-> 0, of |-> 0]]

NextCohesion == compute_party_cohesion \/ compute_other_party_cohesion

SpecCohesion == InitCohesion /\ [][NextCohesion]_vars

(***************************************************************************)
(* The fetch primitive _get, one loop iteration at a time, called by the   *)
(* votings sync of one year: the listing, then the detail of the one       *)
(* voting listed                                                           *)
(***************************************************************************)
\* for attempt in range(3)
MAX_ATTEMPTS == 3

\* settings.riigikogu_rate_limit_ms, self.min_delay_ms and the cap of
\* _on_rate_limit
riigikogu_rate_limit_ms == 500

min_delay_ms == 200

MAX_DELAY_MS == 10000

\* what one request can end as: a status code, or httpx.RequestError
Responses == {"200", "404", "429", "500", "RequestError"}

\* the answers that are neither a body nor a 404
Failures == {"429", "500", "RequestError"}

\* _on_rate_limit and _on_success
_on_rate_limit(delay_ms) == Min2(MAX_DELAY_MS, delay_ms * 2)

\* the shrink without the floor
OnSuccessUnfloored(delay_ms) == (delay_ms * 9) \div 10

\* int(delay_ms * 0.9) is the integer quotient of delay_ms * 9 by 10 for every
\* delay up to the ceiling
_on_success(delay_ms) == Max2(min_delay_ms, (delay_ms * 9) \div 10)

\* a call of _get that has sent nothing yet
NewGet(delay_ms) ==
    [attempt |-> 0, responses |-> <<>>, waits |-> <<>>, slept_ms |-> 0,
     delay_ms |-> delay_ms, got |-> "pending"]

\* One iteration of the loop of _get: _rate_limit sleeps delay_ms, the
\* request is sent and answered by resp.  waits holds the time slept between
\* the previous request (or the call) and this one, in milliseconds.
GetAttempt(g, resp) ==
    LET last == g.attempt = MAX_ATTEMPTS - 1
        sent == [g EXCEPT !.responses = Append(@, resp),
                          !.waits = Append(@, g.slept_ms + g.delay_ms),
                          !.slept_ms = 0,
                          !.attempt = @ + 1]
    IN  CASE resp = "429" ->
                [sent EXCEPT !.delay_ms = _on_rate_limit(@),
                             !.got = IF last THEN "none" ELSE "pending"]
          [] resp = "404" -> [sent EXCEPT !.got = "none"]
          [] resp = "200" -> [sent EXCEPT !.delay_ms = _on_success(@), !.got = "json"]
          [] resp = "500" -> [sent EXCEPT !.got = IF last THEN "raised" ELSE "pending"]
          [] resp = "RequestError" ->
                [sent EXCEPT !.got = IF last THEN "raised" ELSE "pending",
                             !.slept_ms = IF last THEN 0 ELSE 1000 * (2 ^ g.attempt)]

\* sync_votings has set the status to running and _sync_votings_year sends
\* the listing request of the year
IdleFetch(delay_ms) ==
    [stage |-> "fetch", phase |-> "list", get |-> NewGet(delay_ms),
     count |-> 0, status |-> "running", result |-> Unset]

\* resp = await self.client.get(url, params=params) and what follows it
get_attempt ==
    /\ call.stage = "fetch"
    /\ call.phase \in {"list", "detail"}
    /\ call.get.got = "pending"
    /\ call.get.attempt < MAX_ATTEMPTS
    /\ \E resp \in Responses : call' = [call EXCEPT !.get = GetAttempt(@, resp)]
    /\ UNCHANGED NoDb

\* the listing request is over: no sessions end the year with count 0, and
\* with it the type as completed; the exception ends the type as an error;
\* the sessions lead to the detail request of the voting
sync_votings_year_listed ==
    /\ call.stage = "fetch"
    /\ call.phase = "list"
    /\ call.get.got # "pending"
    /\ call' = CASE call.get.got = "raised" ->
                       [call EXCEPT !.phase = "done", !.status = "error", !.result = ErrorString]
                 [] call.get.got = "none" ->
                       [call EXCEPT !.phase = "done", !.status = "completed", !.result = Count(0)]
                 [] call.get.got = "json" ->
                       [call EXCEPT !.phase = "detail", !.get = NewGet(call.get.delay_ms)]
    /\ UNCHANGED NoDb

\* the detail request is over: no detail skips the voting, a detail is
\* parsed and upserted, and the exception ends the type as an error
sync_votings_year_detailed ==
    /\ call.stage = "fetch"
    /\ call.phase = "detail"
    /\ call.get.got # "pending"
    /\ call' = CASE call.get.got = "raised" ->
                       [call EXCEPT !.phase = "done", !.status = "error", !.result = ErrorString]
                 [] call.get.got = "none" ->
                       [call EXCEPT !.phase = "done", !.status = "completed", !.result = Count(0)]
                 [] call.get.got = "json" ->
                       [call EXCEPT !.phase = "done", !.status = "completed",
                                    !.count = 1, !.result = Count(1)]
    /\ UNCHANGED NoDb

InitFetch ==
    /\ AllAtRest
    /\ \E d \in {riigikogu_rate_limit_ms, min_delay_ms} : call = IdleFetch(d)

NextFetch == get_attempt \/ sync_votings_year_listed \/ sync_votings_year_detailed

SpecFetch == InitFetch /\ [][NextFetch]_vars

(***************************************************************************)
(* The adaptive delay of the client over a sequence of answers             *)
(***************************************************************************)
\* a request answered with a body: self._on_success()
delay_on_success ==
    /\ call.stage = "delay"
    /\ call' = [call EXCEPT !.op = "success", !.before = call.delay_ms,
                            !.delay_ms = _on_success(call.delay_ms)]
    /\ UNCHANGED NoDb

\* a request answered 429: self._on_rate_limit()
delay_on_rate_limit ==
    /\ call.stage = "delay"
    /\ call' = [call EXCEPT !.op = "rate_limit", !.before = call.delay_ms,
                            !.delay_ms = _on_rate_limit(call.delay_ms)]
    /\ UNCHANGED NoDb

\* self.delay_ms = settings.riigikogu_rate_limit_ms, any configured value
\* from the floor to the ceiling
InitDelay ==
    /\ AllAtRest
    /\ \E d \in min_delay_ms..MAX_DELAY_MS :
          call = [stage |-> "delay", op |-> "init", before |-> d, delay_ms |-> d]

NextDelay == delay_on_success \/ delay_on_rate_limit

SpecDelay == InitDelay /\ [][NextDelay]_vars

(***************************************************************************)
(* The coalition detector over a window of stored votings                  *)
(***************************************************************************)
MaxWindow == 3

\* the voters of a voting: one voter a party, in the order of the answer
CoalitionBallots ==
    { << Voter("m1", F_RE, "FOR"), Voter("m2", F_K, "FOR") >>,
      << Voter("m2", F_K, "FOR"), Voter("m1", F_RE, "FOR") >>,
      << Voter("m2", F_K, "FOR"), Voter("m1", F_RE, "AGAINST"), Voter("m3", F_SDE, "FOR") >>,
      << Voter("m3", F_SDE, "FOR"), Voter("m1", F_RE, "FOR"), Voter("m2", F_K, "AGAINST") >>,
      << Voter("m1", F_RE, "ABSENT"), Voter("m2", F_K, "FOR"), Voter("m3", F_SDE, "AGAINST") >>,
      << Voter("m1", F_RE, "AGAINST"), Voter("m2", F_K, "AGAINST") >> }

\* coalition = await _detect_coalition(db)
detect_coalition ==
    /\ call.stage = "coalition_input"
    /\ call' = [call EXCEPT !.stage = "coalition_done", !.coalition = _detect_coalition(call.coll)]
    /\ UNCHANGED NoDb

InitCoalition ==
    /\ AllAtRest
    /\ \E n \in 0..MaxWindow : \E ballots \in [1..n -> CoalitionBallots] :
          call = [stage |-> "coalition_input",
                  coll |-> [k \in 1..n |-> Doc(<<"c", k>>, <<2025, 1, k, 10>>, ballots[k])],
                  coalition |-> {}]

NextCoalition == detect_coalition

SpecCoalition == InitCoalition /\ [][NextCoalition]_vars

(***************************************************************************)
(* sync_members parsing the members of the listing                         *)
(***************************************************************************)
\* parsed = self._parse_member(raw_member)
parse_member ==
    /\ call.stage = "member_input"
    /\ call' = [call EXCEPT !.stage = "member_parsed", !.parsed = _parse_member(call.raw)]
    /\ UNCHANGED NoDb

\* the next sync parses the same answer again
parse_member_again ==
    /\ call.stage = "member_parsed"
    /\ call' = [call EXCEPT !.stage = "member_reparsed", !.parsed = _parse_member(call.raw)]
    /\ UNCHANGED NoDb

InitMember ==
    /\ AllAtRest
    /\ \E raw \in RawMembers :
          call = [stage |-> "member_input", raw |-> raw,
                  parsed |-> [uuid |-> None, faction |-> None, partyCode |-> None]]

NextMember == parse_member \/ parse_member_again

SpecMember == InitMember /\ [][NextMember]_vars

(***************************************************************************)
(* Properties of the learning loop                                         *)
(***************************************************************************)
\* a train_model run at its promotion gate, and at its update of model_state
AtGate(p) == job[p].pc = "tm_gate" /\ job'[p].pc = "tm_update"

AtTrainUpdate(p) ==
    job[p].pc = "tm_update" /\ job'[p].pc = "idle" /\ model_state' # model_state

\* C1: a train_model run whose candidate scores no better than the baseline
\* accuracy it read leaves the in-process model unset (predictions fall to
\* the baseline, _model_version "baseline-v1"), and its update of
\* model_state leaves the version field as it was.
C1_PromotionGate ==
    [][\A p \in TrainProcs :
          /\ (AtGate(p) /\ job[p].cand.test_accuracy <= ReadBaselineAccuracy(model_state))
                => (_model' = None /\ ~_label_encoder' /\ _model_version' = "baseline-v1")
          /\ (AtTrainUpdate(p) /\ job[p].cand.test_accuracy <= job[p].baseline_accuracy)
                => model_state'.version = model_state.version]_vars

\* a non-promoting run has written model_state: a baseline exists, the
\* candidate it recorded scored no better, and the baseline version stands
C1_Witness ==
    /\ model_state.mlModelVersion # None
    /\ model_state.baselineAccuracy > 0
    /\ model_state.mlModelAccuracy <= model_state.baselineAccuracy
    /\ model_state.mlModelAccuracy > 0
    /\ model_state.version = "baseline-v1"
    /\ _model = None
    /\ _model_version = "baseline-v1"

\* C2: at most one run of the backtest job type is in flight at any time.
C2_OneRunInFlight == Cardinality(BacktestInFlight) <= 1

(***************************************************************************)
(* Properties of the ingestion client                                      *)
(***************************************************************************)
HasCompletedCheckpoint(t, year) ==
    \E i \in DOMAIN sync_progress[t].checkpoints :
        sync_progress[t].checkpoints[i].year = year /\ sync_progress[t].checkpoints[i].completed

\* runner r takes the step at the head of its year loop
AtLoopHead(r) == syncer[r].pc = "loop" /\ syncer'[r] # syncer[r]

\* a past year with a completed checkpoint is not fetched
SkipsCompletedYears ==
    \A r \in Runners :
        (/\ AtLoopHead(r)
         /\ syncer[r].year < syncer[r].current_year
         /\ HasCompletedCheckpoint(syncer[r].type, syncer[r].year))
            => syncer'[r].pc # "fetch"

C4_CurrentYearNeverCompleted ==
    \A t \in YearTypes :
        \A i \in DOMAIN sync_progress[t].checkpoints :
            sync_progress[t].checkpoints[i].completed => sync_progress[t].checkpoints[i].year < now

\* a type holds a completed checkpoint of a past year and an open one of the
\* current year
C4_Witness ==
    \E t \in YearTypes :
        /\ \E i \in DOMAIN sync_progress[t].checkpoints :
              sync_progress[t].checkpoints[i].completed
        /\ \E i \in DOMAIN sync_progress[t].checkpoints :
              /\ sync_progress[t].checkpoints[i].year = now
              /\ ~sync_progress[t].checkpoints[i].completed

UniqueUuids(coll) == \A i, j \in DOMAIN coll : coll[i].uuid = coll[j].uuid => i = j

OneDocumentPerUuid == UniqueUuids(members) /\ UniqueUuids(votings) /\ UniqueUuids(drafts)

Stored(coll, rec) == \E i \in DOMAIN coll : coll[i] = rec

\* every record the upstream serves for the years up to the current one is
\* in its collection
AllStored ==
    /\ \A i \in DOMAIN UpstreamMembers : Stored(members, UpstreamMembers[i])
    /\ \A y \in EPOCH_YEAR..now :
          /\ \A i \in DOMAIN UpstreamRecords("votings", y) : Stored(votings, UpstreamRecords("votings", y)[i])
          /\ \A i \in DOMAIN UpstreamRecords("drafts", y) : Stored(drafts, UpstreamRecords("drafts", y)[i])

C6_SyncAllIsolatesFailures ==
    \A r \in Runners :
        /\ syncer[r].pc # "raised"
        /\ syncer[r].pc = "returned" =>
              /\ [i \in DOMAIN syncer[r].log |-> syncer[r].log[i].type] = SyncTypes
              /\ \A i \in DOMAIN syncer[r].log :
                    LET e == syncer[r].log[i]
                    IN  syncer[r].results[e.type].kind = (IF e.ev = "raised" THEN "error" ELSE "count")

\* sync_all returned after its first type raised and a later one returned
C6_Witness ==
    \E r \in Runners :
        /\ syncer[r].pc = "returned"
        /\ syncer[r].results["members"].kind = "error"
        /\ syncer[r].results["drafts"].kind = "count"

(***************************************************************************)
(* Properties of the training data                                         *)
(***************************************************************************)
\* the votingTime of the voting a sample was built from
TimeOfVoting(uuid) == (CHOOSE d \in Range(VotingPool) : d.uuid = uuid).votingTime

\* the calendar date of a timestamp is before the cutoff date
DateBeforeCutoff(t) ==
    /\ t # <<>>
    /\ \/ t[1] < model_cutoff_date[1]
       \/ t[1] = model_cutoff_date[1] /\ t[2] < model_cutoff_date[2]
       \/ t[1] = model_cutoff_date[1] /\ t[2] = model_cutoff_date[2] /\ t[3] < model_cutoff_date[3]

DateAtOrAfterCutoff(t) == t # <<>> /\ ~DateBeforeCutoff(t)

\* C7: every training sample of a train_model run comes from a voting dated
\* before the cutoff, every evaluation sample from a voting dated at or after
\* it, and no voting has samples in both sets.
C7_TimeSeparation ==
    \A p \in TrainProcs :
        /\ \A i \in DOMAIN job[p].X_train : DateBeforeCutoff(TimeOfVoting(job[p].X_train[i].voting))
        /\ \A i \in DOMAIN job[p].X_test : DateAtOrAfterCutoff(TimeOfVoting(job[p].X_test[i].voting))
        /\ \A i \in DOMAIN job[p].X_train : \A k \in DOMAIN job[p].X_test :
              job[p].X_train[i].voting # job[p].X_test[k].voting

\* a run holds both sets, built from a collection that also holds a voting
\* without votingTime and that grew between the two queries
C7_Witness ==
    \E p \in TrainProcs :
        /\ job[p].pc = "tm_gate"
        /\ job[p].X_train # <<>>
        /\ \E i, k \in DOMAIN job[p].X_test : job[p].X_test[i].voting # job[p].X_test[k].voting
        /\ \E i \in DOMAIN votings : votings[i].votingTime = <<>>

\* C8: the training set does not depend on data at or after the cutoff: two
\* deployments whose databases differ only in votings dated at or after the
\* cutoff, and in the statistics computed from them, build the same training
\* samples (features and labels).
C8_TrainingSetIgnoresPostCutoff ==
    (built["a"].done /\ built["b"].done /\ built["a"].fresh /\ built["b"].fresh)
        => built["a"].X = built["b"].X

(***************************************************************************)
(* Properties of the predictor                                             *)
(***************************************************************************)
\* C9: every result predict returns has a confidence of at most 0.99, on the
\* trained-model path and on both baseline paths.
C9_ConfidenceClamped ==
    prediction.pc = "returned" => prediction.result.confidence <= 9900

NoModelDeployed == _model = None \/ ~_label_encoder

\* the non-absent decisions of a party's voters in the recent votings
NonAbsentVotes(party) ==
    LET recent == RecentVotings(votings)
        cells == {c \in (DOMAIN recent) \X (1..4) :
                     /\ c[2] \in DOMAIN recent[c[1]].voters
                     /\ extract_party_code(recent[c[1]].voters[c[2]].faction) = party
                     /\ recent[c[1]].voters[c[2]].decision # "ABSENT"}
    IN  cells

DecisionsAt(cells) ==
    LET recent == RecentVotings(votings)
    IN  {recent[c[1]].voters[c[2]].decision : c \in cells}

CountAt(cells, d) ==
    LET recent == RecentVotings(votings)
    IN  Cardinality({c \in cells : recent[c[1]].voters[c[2]].decision = d})

\* C10: with no model deployed, predict hands a member with a party to the
\* party-line baseline; for a non-affiliated member it returns the majority
\* decision of the recorded alignment party, and hands over to the party-line
\* baseline when no alignment party is recorded or that party has no
\* non-absent vote in the recent votings; the party-line baseline always
\* returns a prediction, and it is what predict returns.
C10_FallbackChain ==
    [][ /\ (prediction.pc \in {"idle", "returned"} /\ prediction' # prediction /\ NoModelDeployed)
            => LET mp == prediction'.mp
                   party == AlignParty(frAlignments, mp.memberUuid)
               IN  /\ mp.partyCode # "FR" => prediction'.pc = "party_line"
                   /\ (mp.partyCode = "FR" /\ party = None) => prediction'.pc = "party_line"
                   /\ (mp.partyCode = "FR" /\ party # None)
                         => prediction'.pc = "alignment" /\ prediction'.align_party = party
        /\ prediction.pc = "alignment"
            => LET cells == NonAbsentVotes(prediction.align_party)
               IN  IF cells = {}
                   THEN prediction'.pc \in {"alignment", "party_line"}
                   ELSE \/ prediction' = prediction
                        \/ /\ prediction'.pc = "returned"
                           /\ prediction'.result.modelVersion = "hybrid-baseline-v1"
                           /\ prediction'.result.prediction \in DecisionsAt(cells)
                           /\ \A d \in DecisionsAt(cells) :
                                 CountAt(cells, d) <= CountAt(cells, prediction'.result.prediction)
        /\ prediction.pc = "party_line"
            => /\ predict_party_line(votings, prediction.mp).prediction \in Classes
               /\ \/ prediction' = prediction
                  \/ /\ prediction'.pc = "returned"
                     /\ prediction'.result = predict_party_line(votings, prediction.mp)
      ]_vars

\* a non-affiliated member with a recorded alignment party got that party's
\* majority while votings were being stored
C10_Witness ==
    /\ NoModelDeployed
    /\ prediction.pc = "returned"
    /\ prediction.mp.partyCode = "FR"
    /\ prediction.align_party = "K"
    /\ prediction.result.modelVersion = "hybrid-baseline-v1"
    /\ Len(votings) > RECENT_LIMIT

(***************************************************************************)
(* Properties of model_state                                               *)
(***************************************************************************)
\* modelVersion of the results predict returns: the deployed model's version,
\* or one of the two baseline versions when no model is deployed
ServedVersions ==
    IF _model # None /\ _label_encoder THEN {_model_version}
    ELSE {"baseline-v1", "hybrid-baseline-v1"}

\* no backtest or training run is under way
LearningLoopQuiet == \A p \in TrainProcs : job[p].pc \in {"idle", "queued"}

\* C11: after any sequence of completed baseline backtests and training runs
\* the version recorded in model_state names the model predict serves.
C11_ModelStateNamesServedModel ==
    (LearningLoopQuiet /\ model_state.exists /\ model_state.version # None)
        => model_state.version \in ServedVersions

(***************************************************************************)
(* Properties of the prediction log                                        *)
(***************************************************************************)
\* the draft a stored voting decided on, as the upstream knows it
DraftOfVoting(uuid) == (CHOOSE d \in Range(ResolveDetails) : d.uuid = uuid).draft

\* a voting for the entry's draft, with the member among its voters, was
\* synced after the prediction was logged
VotingForDraftSynced(e) ==
    /\ e.draftUuid # None
    /\ \E k \in DOMAIN votings :
          /\ DraftOfVoting(votings[k].uuid) = e.draftUuid
          /\ \E i \in DOMAIN votings[k].voters : votings[k].voters[i].memberUuid = e.mpUuid
          /\ votings[k].syncedAt >= e.predictedAt

\* C12: a prediction is logged with actual unset; when it carries a draft id
\* and a voting for that draft in which the member took part has been synced
\* since, the next resolve_predictions run fills actual, correct and
\* resolvedAt.
C12_ResolvedByNextRun ==
    [][resolve_predictions =>
          \A i \in DOMAIN prediction_log :
              VotingForDraftSynced(prediction_log[i])
                  => /\ prediction_log'[i].actual # None
                     /\ prediction_log'[i].correct # None
                     /\ prediction_log'[i].resolvedAt # -1]_vars

(***************************************************************************)
(* Properties of the normalisers                                           *)
(***************************************************************************)
Decisions == {"FOR", "AGAINST", "ABSTAIN", "ABSENT"}

\* C13: normalize_decision returns one of the four decisions for every input;
\* normalizing what it returned for a supported token gives the same decision
\* again; None and every unrecognized string give ABSENT.
C13_NormalizeTotalIdempotent ==
    /\ call.stage \in {"once", "twice"} => call.once \in Decisions
    /\ (call.stage = "twice" /\ TokenOf(call.raw) \in SupportedTokens) => call.twice = call.once
    /\ (call.stage \in {"once", "twice"} /\ TokenOf(call.raw) \notin SupportedTokens)
          => call.once = "ABSENT"

\* C14: extract_party_code returns every code of the fixed set unchanged, and
\* resolves None and the empty string to the non-affiliated code FR; what it
\* returns it returns again when called on its own result.
C14_PartyCodeIdempotent ==
    /\ (call.stage \in {"party_once", "party_twice"} /\ call.raw \in VALID_PARTY_CODES)
          => call.once = call.raw
    /\ (call.stage \in {"party_once", "party_twice"} /\ call.raw \in {None, ""})
          => call.once = "FR"
    /\ call.stage = "party_twice" => call.twice = call.once

\* a code that no pattern of PARTY_CODE_PATTERNS occurs in was resolved
C14_Witness ==
    call.stage = "party_twice" /\ call.raw = "SDE" /\ call.once = "SDE" /\ call.twice = "SDE"

(***************************************************************************)
(* Properties of the slug generator                                        *)
(***************************************************************************)
\* C15: make_slug is deterministic; its result holds only a-z, 0-9 and
\* hyphen, accented letters being replaced by their base letters, with no
\* leading, trailing or doubled hyphen; make_slug("J\"uri", "Ratas") is
\* "juri-ratas".
C15_SlugAsciiOnly ==
    /\ call.stage = "slug_again" => call.again = call.slug
    /\ call.stage \in {"slug_done", "slug_again"}
          => /\ \A i \in DOMAIN call.slug :
                   call.slug[i] \in Range(LowerLetters) \cup Range(Digits) \cup {"-"}
             /\ call.slug = <<>> \/ (Head(call.slug) # "-" /\ call.slug[Len(call.slug)] # "-")
             /\ \A i \in 1..(Len(call.slug) - 1) : ~(call.slug[i] = "-" /\ call.slug[i + 1] = "-")
             /\ (call.first_name = <<"J", "u_uml", "r", "i">> /\ call.last_name = <<"R", "a", "t", "a", "s">>) => call.slug = <<"j", "u", "r", "i", "-", "r", "a", "t", "a", "s">>

(***************************************************************************)
(* Properties of the party cohesion                                        *)
(***************************************************************************)
\* the voters of the call's party that cast a decision other than ABSENT
NonAbsentVoters ==
    {i \in DOMAIN call.voting.voters :
        /\ extract_party_code(call.voting.voters[i].faction) = call.party_code
        /\ "decision" \in DOMAIN call.voting.voters[i]
        /\ call.voting.voters[i].decision # "ABSENT"}

CastBy(d) == {i \in NonAbsentVoters : call.voting.voters[i].decision = d}

\* C16: the cohesion of a party in a voting is the number of its non-absent
\* voters casting the party's majority decision over the number of its
\* non-absent voters: 1 when they are unanimous, 2/3 for FOR, FOR, AGAINST,
\* absent voters never in the denominator, and 1 when nobody of the party
\* cast a non-absent decision.
C16_PartyCohesion ==
    call.stage = "cohesion_done" =>
        /\ NonAbsentVoters = {} => call.cohesion = [aligned |-> 1, of |-> 1]
        /\ NonAbsentVoters # {} =>
              /\ call.cohesion.of = Cardinality(NonAbsentVoters)
              /\ \E d \in Classes :
                    /\ \A e \in Classes : Cardinality(CastBy(d)) >= Cardinality(CastBy(e))
                    /\ call.cohesion.aligned = Cardinality(CastBy(d))
              /\ (\E d \in Classes : CastBy(d) = NonAbsentVoters)
                    => call.cohesion.aligned = call.cohesion.of
              /\ (Cardinality(CastBy("FOR")) = 2 /\ Cardinality(CastBy("AGAINST")) = 1
                     /\ CastBy("ABSTAIN") = {})
                    => 3 * call.cohesion.aligned = 2 * call.cohesion.of

\* FOR, FOR, AGAINST and an absent voter of the party: cohesion 2/3
C16_Witness ==
    /\ call.stage = "cohesion_done"
    /\ call.party_code = "RE"
    /\ Len(call.voting.voters) = 4
    /\ Cardinality(CastBy("FOR")) = 2
    /\ Cardinality(CastBy("AGAINST")) = 1
    /\ \E i \in DOMAIN call.voting.voters :
          /\ call.voting.voters[i].faction = F_RE
          /\ i \notin NonAbsentVoters
    /\ call.cohesion = [aligned |-> 2, of |-> 3]

(***************************************************************************)
(* Properties of the fetch primitive                                       *)
(***************************************************************************)
\* C17: a call of _get sends at most 3 requests; a 404 ends it at once with
\* the no-data result, nothing raised; any other failed request is followed,
\* after a wait longer than the one before it, by another attempt, and the
\* failure of the third attempt is raised.
C17_GetRetriesThenRaises ==
    call.stage = "fetch" =>
        LET g == call.get
        IN  /\ Len(g.responses) <= 3
            /\ \A i \in DOMAIN g.responses :
                  g.responses[i] = "404" => i = Len(g.responses) /\ g.got = "none"
            /\ \A i \in DOMAIN g.responses :
                  (g.responses[i] \in Failures /\ i < 3)
                      => /\ g.got = "pending" \/ i < Len(g.responses)
                         /\ i < Len(g.waits) => g.waits[i + 1] > g.waits[i]
            /\ (Len(g.responses) = 3 /\ g.responses[3] \in Failures) => g.got = "raised"

\* C18: when every attempt of a fetch of a sync type failed, rate-limit
\* answers included, the type ends with status error and an error entry in
\* the result of sync_all, never as completed with a count.
C18_PersistentFailureIsError ==
    (call.stage = "fetch" /\ call.phase = "done"
        /\ Len(call.get.responses) = MAX_ATTEMPTS
        /\ \A i \in DOMAIN call.get.responses : call.get.responses[i] \in Failures)
        => call.status = "error" /\ call.result = ErrorString

(***************************************************************************)
(* Properties of the size guard                                            *)
(***************************************************************************)
\* C19: once a size check of a sync_all run has found the dataset above the
\* ceiling, the run sends no further listing or detail request and upserts
\* no further record, of any type.
C19_GuardHaltsRun ==
    [][\A r \in Runners :
          syncer[r].paused =>
              /\ ~sync_year(r)
              /\ ~sync_members_list(r)
              /\ votings' = votings /\ stenograms' = stenograms /\ drafts' = drafts /\ members' = members]_vars

\* C20: a year whose scan the size guard cut short, votings of the listing
\* still unscanned, is not checkpointed as completed, so that the next run
\* does not skip it.
C20_PausedYearStaysOpen ==
    \A r \in Runners :
        (syncer[r].pc = "size" /\ syncer[r].cut)
            => /\ ~_is_year_completed(sync_progress[syncer[r].type], syncer[r].year)
               /\ ~SkipsYear(syncer[r].year, now,
                             _is_year_completed(sync_progress[syncer[r].type], syncer[r].year))

(***************************************************************************)
(* Properties of the adaptive delay                                        *)
(***************************************************************************)
\* C21: from any delay between the floor and the ceiling, after any sequence
\* of successes and rate-limit answers the delay is between the floor and
\* the ceiling; a success sets it to max(floor, trunc(0.9 * delay)) and never
\* raises it, a rate-limit answer sets it to min(ceiling, 2 * delay) and
\* never lowers it.
C21_DelayBounded ==
    call.stage = "delay" =>
        /\ 200 <= call.delay_ms /\ call.delay_ms <= 10000
        /\ call.op = "success" =>
              /\ call.delay_ms <= call.before
              /\ call.delay_ms = IF 10 * 200 > 9 * call.before THEN 200
                                 ELSE CHOOSE q \in 0..call.before :
                                          10 * q <= 9 * call.before /\ 9 * call.before < 10 * (q + 1)
        /\ call.op = "rate_limit" =>
              /\ call.delay_ms >= call.before
              /\ call.delay_ms = IF 2 * call.before > 10000 THEN 10000 ELSE 2 * call.before

\* a success at a delay just above the floor lands on the floor
C21_Witness ==
    /\ call.stage = "delay"
    /\ call.op = "success"
    /\ call.before = 210
    /\ call.delay_ms = 200

(***************************************************************************)
(* Properties of the member parser                                         *)
(***************************************************************************)
\* the active memberships of the parsed member outside the non-affiliated
\* bucket
RealActive ==
    {i \in DOMAIN call.raw.factions :
        /\ call.raw.factions[i].membership.endDate = None
        /\ call.raw.factions[i].name # F_FR}

\* C22: _parse_member ignores the memberships with an end date; of the
\* memberships without one it takes the first that is not the non-affiliated
\* bucket, wherever a non-affiliated entry stands; the party is FR only when
\* no active membership outside the non-affiliated bucket exists.
C22_CurrentParty ==
    (call.stage \in {"member_parsed", "member_reparsed"} /\ "factions" \in DOMAIN call.raw) =>
        /\ RealActive # {} =>
              LET first == CHOOSE i \in RealActive : \A j \in RealActive : i <= j
              IN  /\ call.parsed.faction = call.raw.factions[first].name
                  /\ call.parsed.partyCode =
                        (IF call.raw.factions[first].name = F_RE THEN "RE" ELSE "SDE")
        /\ RealActive = {} <=> call.parsed.partyCode = "FR"

\* an active non-affiliated entry listed before the active SDE membership
C22_Witness ==
    /\ call.stage = "member_parsed"
    /\ "factions" \in DOMAIN call.raw
    /\ Len(call.raw.factions) = 3
    /\ call.raw.factions[1] = [name |-> F_RE, membership |-> [endDate |-> "2024-05-01"]]
    /\ call.raw.factions[2] = [name |-> F_FR, membership |-> [endDate |-> None]]
    /\ call.raw.factions[3] = [name |-> F_SDE, membership |-> [endDate |-> None]]
    /\ call.parsed.partyCode = "SDE"

(***************************************************************************)
(* Properties of the coalition detector                                    *)
(***************************************************************************)
CoalitionWindow == Limit(SortTimeDesc(call.coll), COALITION_WINDOW)

CoalitionParties == PartiesSeen(CoalitionWindow)

\* the agreement rate of two parties is greater than 0.70
AgreeAbove70(p, q) ==
    LET a == Agreement(CoalitionWindow, p, q)
    IN  a[2] > 0 /\ 10 * a[1] > 7 * a[2]

\* the cluster anchored at a party
ClusterOf(p) == {p} \cup {q \in Range(CoalitionParties) : q # p /\ AgreeAbove70(p, q)}

\* C23: the cluster of every anchor party P is P and exactly the parties
\* whose agreement rate with P is above 0.70, for every pair and whatever
\* the order the parties were first seen in; the coalition returned is the
\* cluster of the first anchor of maximum cluster size, and it is empty only
\* when no party has a non-absent vote in the window.
C23_CoalitionIsLargestCluster ==
    call.stage = "coalition_done" =>
        IF CoalitionParties = <<>> THEN call.coalition = {}
        ELSE \E n \in DOMAIN CoalitionParties :
                /\ call.coalition = ClusterOf(CoalitionParties[n])
                /\ \A m \in DOMAIN CoalitionParties :
                      /\ Cardinality(ClusterOf(CoalitionParties[m])) <= Cardinality(call.coalition)
                      /\ m < n => Cardinality(ClusterOf(CoalitionParties[m])) < Cardinality(call.coalition)

\* the votings of the window, by position, in which a party has a non-absent
\* voter: where the entries of its sequence of majorities come from
PositionSources(party) ==
    LET RECURSIVE From(_)
        From(k) == IF k > Len(CoalitionWindow) THEN <<>>
                   ELSE IF HasVotes(CoalitionWindow[k].voters, party) THEN <<k>> \o From(k + 1)
                   ELSE From(k + 1)
    IN  From(1)

\* C24: the two majority decisions compared at a position of the sequences
\* of two parties come from the same voting, also when one of the parties
\* has no non-absent voter in a voting of the window.
C24_PositionsAligned ==
    call.stage = "coalition_done" =>
        \A p, q \in Range(CoalitionParties) :
            \A k \in 1..Min2(Len(PositionSources(p)), Len(PositionSources(q))) :
                PositionSources(p)[k] = PositionSources(q)[k]

(***************************************************************************)
(* Inference-time features: compute_features (prediction/features.py)      *)
(***************************************************************************)
\* the days the clock can stand after a voting of the archive
DaysAgo == {0, 100, 400}

\* _get_mp_and_party_decision: the member's decision (None when the member
\* is not a voter) and the majority of the party's non-absent voters
_get_mp_and_party_decision(voting, member_uuid, party_code) ==
    LET mine == SelectSeq(voting.voters, LAMBDA v : v.memberUuid = member_uuid)
        party_decisions == CohesionDecisions(voting.voters, party_code)
    IN  [mp_decision |-> IF mine = <<>> THEN None ELSE mine[Len(mine)].decision,
         party_majority |-> IF party_decisions = <<>> THEN None ELSE MostCommon(party_decisions)]

\* _days_since_last_defection: the loop stops at the newest voting where the
\* member's decision differs from the party majority; delta is the age of
\* that voting in days, and a voting without a time leaves the default
_days_since_last_defection(coll, member_uuid, party_code, delta) ==
    LET found == SelectSeq(coll, LAMBDA d : \E i \in DOMAIN d.voters : d.voters[i].memberUuid = member_uuid)
        cursor == Limit(SortTimeDesc(found), 100)
        Defects(d) == LET r == _get_mp_and_party_decision(d, member_uuid, party_code)
                      IN  r.mp_decision # None /\ r.party_majority # None
                            /\ r.mp_decision # r.party_majority
        hits == {k \in DOMAIN cursor : Defects(cursor[k])}
        first == CHOOSE k \in hits : \A j \in hits : k <= j
        days == IF hits = {} \/ cursor[first].votingTime = <<>> THEN 365
                ELSE Min2(365, Max2(delta, 0))
    IN  Min2((10000 * days) \div 365, 10000)

\* _party_position_strength: the mean cohesion of the party over the 50 most
\* recent votings, 0.85 when there is none
_party_position_strength(coll, party_code) ==
    LET votings_ == Limit(SortTimeDesc(coll), 50)
        RECURSIVE Sum(_)
        Sum(k) == IF k = 0 THEN 0
                  ELSE LET c == _compute_party_cohesion(votings_[k], party_code)
                       IN  Sum(k - 1) + (10000 * c.aligned) \div c.of
    IN  IF votings_ = <<>> THEN 8500 ELSE Sum(Len(votings_)) \div Len(votings_)

\* compute_features(db, mp, bill_embedding, bill_initiators=None) as predict
\* calls it for a bill without an embedding
compute_features(coll, mp, delta) ==
    [party_loyalty_rate |-> IF mp.stats.present THEN mp.stats.partyAlignmentRate ELSE 8500,
     bill_topic_similarity |-> 0,
     committee_relevance |-> 0,
     coalition_bill |-> 0,
     defection_rate_by_topic |-> 0,
     party_cohesion_on_similar |-> 10000,
     days_since_last_defection |-> _days_since_last_defection(coll, mp.memberUuid, mp.partyCode, delta),
     mp_attendance_rate |-> IF mp.stats.present THEN mp.stats.attendance ELSE 8000,
     party_position_strength |-> _party_position_strength(coll, mp.partyCode)]

\* _build_training_data, one sample: the features dict and its vector
build_training_vector ==
    /\ call.stage = "features_input"
    /\ \E k \in DOMAIN call.coll : \E i \in DOMAIN call.coll[k].voters :
          /\ call.coll[k].voters[i].decision # "ABSENT"
          /\ LET features == TrainingFeatures(call.coll[k].voters, call.coll[k].voters[i],
                                              call.mps, _detect_coalition(call.coll))
             IN  call' = [call EXCEPT !.stage = "features_trained",
                                      !.training = features,
                                      !.X_train = FeatureVec(features)]
    /\ UNCHANGED NoDb

\* predict: features = await compute_features(...); X = [[features.get(name, 0.0) ...]]
predict_features ==
    /\ call.stage = "features_trained"
    /\ \E m \in DOMAIN call.mps : \E delta \in DaysAgo :
          LET features == compute_features(call.coll, call.mps[m], delta)
          IN  call' = [call EXCEPT !.stage = "features_predicted",
                                   !.inference = features,
                                   !.X = FeatureVec(features)]
    /\ UNCHANGED NoDb

InitFeatures ==
    /\ AllAtRest
    /\ \E n \in 1..Len(VotingPool) : \E with_stats \in BOOLEAN :
          LET coll == SubSeq(VotingPool, 1, n)
          IN  call = [stage |-> "features_input",
                      coll |-> coll,
                      mps |-> IF with_stats THEN compute_mp_stats(coll, TrainMps) ELSE TrainMps,
                      training |-> << >>, X_train |-> << >>,
                      inference |-> << >>, X |-> << >>]

NextFeatures == build_training_vector \/ predict_features

SpecFeatures == InitFeatures /\ [][NextFeatures]_vars

\* C25: the training vector and the inference vector both have one entry per
\* name of FEATURE_NAMES, in that order, and every name of the list is
\* supplied by the training builder and by the inference builder (no entry
\* is the default of a missing name in one of them).
C25_SameNameList ==
    call.stage = "features_predicted" =>
        /\ Len(call.X_train) = Len(FEATURE_NAMES)
        /\ Len(call.X) = Len(FEATURE_NAMES)
        /\ \A i \in DOMAIN FEATURE_NAMES :
              /\ FEATURE_NAMES[i] \in DOMAIN call.training
              /\ FEATURE_NAMES[i] \in DOMAIN call.inference
              /\ call.X_train[i] = call.training[FEATURE_NAMES[i]]
              /\ call.X[i] = call.inference[FEATURE_NAMES[i]]

(***************************************************************************)
(* The writers of model_state side by side: the scheduler's _backtest,     *)
(* _retrain_model, _diagnose_errors and _plan_improvements jobs and the    *)
(* start-up training task (tasks/scheduler.py, tasks/diagnose.py,          *)
(* tasks/plan.py)                                                          *)
(***************************************************************************)
\* runs of the diagnose and plan jobs explored in one behaviour
MaxJobRuns == 2

JobProcs == {"cron_backtest", "cron_retrain"}

\* the scheduler's backtest job and the training task of the start-up
StartupProcs == {"cron_backtest", "startup_train"}

\* the keys of categories in diagnose_errors, in the order of the dict
ERROR_CATEGORIES == << "free_vote", "party_split", "stale_profile", "coalition_shift", "feature_gap" >>

\* the target of plan_improvements: 88 percent
TARGET_ACCURACY == 8800

\* db.prediction_log.find({"correct": False, "resolvedAt": {"$ne": None}})
DiagnosedErrors(log) == SelectSeq(log, LAMBDA e : e.correct = "false" /\ e.resolvedAt # -1)

\* _categorize_error: the position of the category in ERROR_CATEGORIES.  An
\* error of confidence above 0.85 is a feature gap, which is also where the
\* other errors end when no voting carries the draft; no document of mps
\* holds a backtest accuracy, so the stale-profile test never passes
_categorize_error(coll, mp_docs, error) ==
    LET found == IF error.draftUuid = None THEN <<>>
                 ELSE SelectSeq(coll, LAMBDA d : /\ "relatedDraftUuid" \in DOMAIN d
                                                 /\ d.relatedDraftUuid = error.draftUuid)
        hits == {i \in DOMAIN mp_docs : mp_docs[i].memberUuid = error.mpUuid}
        party_code == IF hits = {} THEN "FR"
                      ELSE mp_docs[CHOOSE i \in hits : \A j \in hits : i <= j].partyCode
        cohesion == _compute_party_cohesion(found[1], party_code)
    IN  IF error.mpUuid = None \/ found = <<>> THEN 5
        ELSE IF 10 * cohesion.aligned < 6 * cohesion.of THEN 1
        ELSE IF 10 * cohesion.aligned < 7 * cohesion.of THEN 2
        ELSE 5

\* max(error_cats.items(), key=lambda x: x[1]): the first key of largest count
TopError(error_cats) ==
    CHOOSE i \in DOMAIN error_cats :
        /\ \A j \in DOMAIN error_cats : error_cats[j] <= error_cats[i]
        /\ \A j \in DOMAIN error_cats : j < i => error_cats[j] < error_cats[i]

\* priorities.sort(key=expectedGain, reverse=True): stable, largest gain first
RECURSIVE SortByGain(_)
SortByGain(ps) ==
    IF ps = <<>> THEN <<>>
    ELSE LET rest == SortByGain(SubSeq(ps, 1, Len(ps) - 1))
             last == ps[Len(ps)]
             before == SelectSeq(rest, LAMBDA q : q.expectedGain >= last.expectedGain)
             after == SelectSeq(rest, LAMBDA q : q.expectedGain < last.expectedGain)
         IN  before \o <<last>> \o after

\* the priorities plan_improvements derives from the document it read; gains
\* are in hundredths.  accuracy.byMP is written by no job, so the list of
\* weak members is empty; the importances below 0.01 are those of the fitted
\* model, which the document of the model does not detail: low_features
\* says whether there is one
Priorities(doc, low_features) ==
    LET error_cats == doc.errorCategories
        by_error == IF error_cats # <<>> /\ error_cats[TopError(error_cats)] > 0
                    THEN << [area |-> ERROR_CATEGORIES[TopError(error_cats)],
                             expectedGain |-> 5 * error_cats[TopError(error_cats)]] >>
                    ELSE <<>>
        by_features == IF doc.featureImportances # None /\ low_features
                       THEN << [area |-> "low_importance_features", expectedGain |-> 50] >>
                       ELSE <<>>
        by_overall == IF doc.accuracy # -1 /\ doc.accuracy < TARGET_ACCURACY
                      THEN << [area |-> "overall_accuracy", expectedGain |-> TARGET_ACCURACY - doc.accuracy] >>
                      ELSE <<>>
    IN  SortByGain(by_error \o by_features \o by_overall)

IdleJobs ==
    [stage |-> "jobs", runs |-> 0, started |-> FALSE,
     diagnose |-> [pc |-> "idle", categories |-> <<>>],
     plan |-> [pc |-> "idle", priorities |-> <<>>]]

\* what the diagnose and plan steps leave alone
JobsFrame ==
    <<votings, mps, _model, _label_encoder, _model_version, _backtest_running, job, starts, reply,
      syncVars, leakVars, predictVars, resolveVars>>

\* _startup_train: ten seconds after the start, train when no model was
\* trained yet; the task is created outside the scheduler's jobs
_startup_train ==
    /\ call.stage = "jobs"
    /\ ~call.started
    /\ call' = [call EXCEPT !.started = TRUE]
    /\ IF _model_version = "untrained"
       THEN job' = [job EXCEPT !["startup_train"] = [IdleJob EXCEPT !.pc = "tm_train"]]
       ELSE UNCHANGED job
    /\ UNCHANGED <<votings, mps, model_state, _model, _label_encoder, _model_version, _backtest_running,
                   starts, reply, syncVars, leakVars, predictVars, resolveVars>>

\* _diagnose_errors, up to the update: the wrong predictions are read and
\* categorized; nothing is written when there is no error
_diagnose_errors ==
    /\ call.stage = "jobs"
    /\ call.runs < MaxJobRuns
    /\ call.diagnose.pc = "idle"
    /\ LET errors == DiagnosedErrors(prediction_log)
       IN  IF errors = <<>>
           THEN call' = [call EXCEPT !.runs = @ + 1]
           ELSE call' = [call EXCEPT !.runs = @ + 1,
                                     !.diagnose = [pc |-> "update",
                                                   categories |-> [i \in DOMAIN ERROR_CATEGORIES |->
                                                       Len(SelectSeq(errors, LAMBDA e :
                                                               _categorize_error(votings, mps, e) = i))]]]
    /\ UNCHANGED NoDb

\* diagnose_errors lines 53-61: the update of model_state is applied
diagnose_errors_update ==
    /\ call.stage = "jobs"
    /\ call.diagnose.pc = "update"
    /\ model_state' = SetFields(model_state, [errorCategories |-> call.diagnose.categories,
                                              lastDiagnosedAt |-> call.runs])
    /\ call' = [call EXCEPT !.diagnose = IdleJobs.diagnose]
    /\ UNCHANGED JobsFrame

\* _plan_improvements, up to the update: the document is read and the
\* priorities are derived from it; without a document nothing is written
_plan_improvements ==
    /\ call.stage = "jobs"
    /\ call.runs < MaxJobRuns
    /\ call.plan.pc = "idle"
    /\ IF ~model_state.exists
       THEN call' = [call EXCEPT !.runs = @ + 1]
       ELSE \E low_features \in BOOLEAN :
               call' = [call EXCEPT !.runs = @ + 1,
                                    !.plan = [pc |-> "update",
                                              priorities |-> Priorities(model_state, low_features)]]
    /\ UNCHANGED NoDb

\* plan_improvements lines 82-96: the update of model_state is applied
plan_improvements_update ==
    /\ call.stage = "jobs"
    /\ call.plan.pc = "update"
    /\ model_state' = PushPlan(SetFields(model_state, [improvementPriorities |-> call.plan.priorities]),
                               [date |-> call.runs, priorities |-> call.plan.priorities, outcome |-> None])
    /\ call' = [call EXCEPT !.plan = IdleJobs.plan]
    /\ UNCHANGED JobsFrame

\* a wrong prediction, resolved, that the diagnose job finds in the log
WrongPrediction ==
    [LogEntry(TrainMps[1], Bills[1], "AGAINST", 0) EXCEPT !.actual = "FOR", !.correct = "false", !.resolvedAt = 1]

InitJobs ==
    /\ votings = VotingPool
    /\ mps = compute_mp_stats(votings, TrainMps)
    /\ model_state = NoModelState
    /\ _model = None
    /\ _label_encoder = FALSE
    /\ _model_version = "untrained"
    /\ _backtest_running = FALSE
    /\ job = [p \in JobProcs |-> IdleJob]
    /\ starts = 0
    /\ reply = [status |-> "none"]
    /\ SyncAtRest
    /\ LeakAtRest
    /\ PredictAtRest
    /\ prediction_log = <<WrongPrediction>>
    /\ clock = 2
    /\ call = IdleJobs

NextJobs ==
    \/ _backtest
    \/ _retrain_model
    \/ \E p \in JobProcs : run_backtest_find(p)
    \/ \E p \in JobProcs : run_backtest_update(p)
    \/ \E p \in JobProcs : train_model_build_train(p)
    \/ \E p \in JobProcs : train_model_build_test(p)
    \/ \E p \in JobProcs : train_model_gate(p)
    \/ \E p \in JobProcs : train_model_update(p)
    \/ _diagnose_errors
    \/ diagnose_errors_update
    \/ _plan_improvements
    \/ plan_improvements_update

SpecJobs == InitJobs /\ [][NextJobs]_vars

(***************************************************************************)
(* The start-up training task beside the first backtest and the first      *)
(* diagnosis                                                               *)
(***************************************************************************)
InitStartup ==
    /\ votings \in {SubSeq(VotingPool, 1, n) : n \in 2..Len(VotingPool)}
    /\ mps = compute_mp_stats(votings, TrainMps)
    /\ model_state = NoModelState
    /\ _model = None
    /\ _label_encoder = FALSE
    /\ _model_version = "untrained"
    /\ _backtest_running = FALSE
    /\ job = [p \in StartupProcs |-> IdleJob]
    /\ starts = 0
    /\ reply = [status |-> "none"]
    /\ SyncAtRest
    /\ LeakAtRest
    /\ PredictAtRest
    /\ prediction_log = <<WrongPrediction>>
    /\ clock = 2
    /\ call = IdleJobs

NextStartup ==
    \/ _startup_train
    \/ _backtest
    \/ \E p \in StartupProcs : run_backtest_find(p)
    \/ \E p \in StartupProcs : run_backtest_update(p)
    \/ \E p \in StartupProcs : train_model_build_train(p)
    \/ \E p \in StartupProcs : train_model_build_test(p)
    \/ \E p \in StartupProcs : train_model_gate(p)
    \/ \E p \in StartupProcs : train_model_update(p)
    \/ _diagnose_errors
    \/ diagnose_errors_update

SpecStartup == InitStartup /\ [][NextStartup]_vars

(***************************************************************************)
(* Properties of the writers of model_state                                *)
(***************************************************************************)
\* the fields of the document whose value a step changes
ChangedFields == {f \in DOMAIN model_state \ {"exists"} : model_state'[f] # model_state[f]}

DiagnoseWrites == call.diagnose.pc = "update" /\ call'.diagnose.pc = "idle"

PlanWrites == call.plan.pc = "update" /\ call'.plan.pc = "idle"

\* the update of a train_model run that did not deploy its candidate
TrainWritesUnpromoted(p) ==
    /\ job[p].pc = "tm_update" /\ ~job[p].deployed
    /\ job'[p].pc = "idle"
    /\ model_state' # model_state

\* C26: a write of the diagnose job changes only errorCategories and
\* lastDiagnosedAt, a write of the plan job only improvementPriorities and
\* planHistory, a write of a training run that does not promote only
\* trainedAt, trainingSize, features, featureImportances, mlModelVersion,
\* mlModelAccuracy and trend; every other field of model_state keeps the
\* value it had, whichever job wrote it and whatever else is under way.
C26_PartialUpdateFrame ==
    [][/\ DiagnoseWrites =>
            /\ ChangedFields \subseteq {"errorCategories", "lastDiagnosedAt"}
            /\ model_state'.errorCategories = call.diagnose.categories
       /\ PlanWrites =>
            /\ ChangedFields \subseteq {"improvementPriorities", "planHistory"}
            /\ model_state'.improvementPriorities = call.plan.priorities
       /\ \A p \in JobProcs : TrainWritesUnpromoted(p) =>
            /\ ChangedFields \subseteq {"trainedAt", "trainingSize", "features", "featureImportances",
                                        "mlModelVersion", "mlModelAccuracy", "trend"}
            /\ model_state'.mlModelVersion = job[p].cand.version]_vars

\* the unpromoted training run has written after the backtest, the plan job
\* has written, and the diagnose job stands between its read and its write
C26_Witness ==
    /\ call.stage = "jobs"
    /\ model_state.trainedAt = "cron_retrain"
    /\ model_state.version = "baseline-v1"
    /\ model_state.mlModelVersion # None
    /\ _model = None
    /\ model_state.planHistory # <<>>
    /\ call.diagnose.pc = "update"

\* the last TREND_SLICE entries of the trend with one more entry
TrendWith(trend, accuracy) ==
    LET all == Append(trend, accuracy)
    IN  SubSeq(all, Max2(1, Len(all) - TREND_SLICE + 1), Len(all))

\* the step is the update of model_state by the run_backtest of job p
BacktestWrites(p) == job[p].pc = "bt_update" /\ job'[p].pc # "bt_update"

\* the step is the update of model_state by the train_model of job p
TrainWrites(p) == job[p].pc = "tm_update" /\ job'[p].pc # "tm_update"

\* C27: the trend of model_state is a rolling history: the write of every
\* baseline backtest and of every training run adds one entry with its
\* accuracy and keeps the entries earlier runs recorded, and the trend never
\* holds more than the TREND_SLICE most recent entries.
C27_TrendIsRollingHistory ==
    [][/\ \A p \in JobProcs :
            /\ BacktestWrites(p) => model_state'.trend = TrendWith(model_state.trend, job[p].bt.overall)
            /\ TrainWrites(p) => model_state'.trend = TrendWith(model_state.trend, Round1(job[p].cand.test_accuracy))
       /\ Len(model_state'.trend) <= TREND_SLICE]_vars

(***************************************************************************)
(* Properties of the start-up training                                     *)
(***************************************************************************)
\* the step is the promotion gate of the train_model of job p
GateStep(p) == job[p].pc = "tm_gate" /\ job'[p].pc = "tm_update"

\* C28: when model_state holds no baselineAccuracy (no baseline backtest has
\* run, as in the start-up training), train_model takes the baseline to be
\* 0: a candidate of held-out accuracy above 0 is deployed, and the run
\* persists 0 as baselineAccuracy.
C28_MissingBaselineIsZero ==
    [][\A p \in StartupProcs :
          /\ (GateStep(p) /\ model_state.baselineAccuracy = -1) =>
                /\ job'[p].baseline_accuracy = 0
                /\ job[p].cand.test_accuracy > 0 =>
                      /\ _model' = job[p].cand.version
                      /\ _model_version' = job[p].cand.version
                      /\ job'[p].deployed
          /\ (TrainWrites(p) /\ job[p].deployed /\ job[p].baseline_accuracy = 0) =>
                model_state'.baselineAccuracy = 0]_vars

\* the start-up training found a document the diagnose job had created,
\* without a baselineAccuracy, deployed its candidate and persisted 0
C28_Witness ==
    /\ call.stage = "jobs"
    /\ call.started
    /\ starts = 0
    /\ model_state.trainedAt = "startup_train"
    /\ model_state.lastDiagnosedAt = 1
    /\ model_state.baselineAccuracy = 0
    /\ model_state.version = _model
    /\ _model # None

(***************************************************************************)
(* A scheduled sync and a triggered sync side by side: _sync_data          *)
(* (tasks/scheduler.py) and _run_sync of POST /sync (routers/sync.py)      *)
(***************************************************************************)
OverlapRunners == {"cron", "trigger"}

\* _run_sync: the background task of POST /sync.  _sync_running is set from
\* the start of the task to its end, which is while its syncer is not idle;
\* the scheduler's job reads no flag.  The upstream API and the database
\* answer every call of the two runs.
_run_sync(r) ==
    /\ r = "trigger"
    /\ sync_runs < MaxSyncRuns
    /\ syncer[r].pc = "idle"
    /\ syncer' = [syncer EXCEPT ![r] = [IdleSyncer EXCEPT !.pc = "begin"]]
    /\ sync_runs' = sync_runs + 1
    /\ UNCHANGED <<votings, mps, trainVars, leakVars, predictVars, resolveVars, callVars, upstream, now, members, stenograms, drafts, sync_progress, faults>>

InitOverlap ==
    /\ votings = <<>>
    /\ mps = <<>>
    /\ TrainAtRest
    /\ now = EPOCH_YEAR
    /\ members = <<>>
    /\ stenograms = <<>>
    /\ drafts = <<>>
    /\ sync_progress = [t \in Range(SyncTypes) |-> NoProgress]
    /\ syncer = [r \in OverlapRunners |-> IdleSyncer]
    /\ sync_runs = 0
    /\ faults = MaxFaults
    /\ upstream = SparseUpstream
    /\ LeakAtRest
    /\ PredictAtRest
    /\ ResolveAtRest

NextOverlap ==
    \/ _sync_data("cron")
    \/ _run_sync("trigger")
    \/ \E r \in OverlapRunners : sync_begin(r)
    \/ \E r \in OverlapRunners : sync_members_list(r)
    \/ \E r \in OverlapRunners : year_loop(r)
    \/ \E r \in OverlapRunners : sync_year(r)
    \/ \E r \in OverlapRunners : save_checkpoint_read(r)
    \/ \E r \in OverlapRunners : save_checkpoint_write(r)
    \/ \E r \in OverlapRunners : check_size(r)
    \/ \E r \in OverlapRunners : sync_end(r)
    \/ \E r \in OverlapRunners : sync_finish(r)
    \/ new_year

SpecOverlap == InitOverlap /\ [][NextOverlap]_vars

\* C29: for every sync type and year, once sync_progress holds a completed
\* checkpoint for the year, every later state holds one too, after any
\* sequence of sync runs, a scheduled and a triggered run that overlap
\* included.
C29_CompletedCheckpointStays ==
    [][\A t \in YearTypes : \A y \in EPOCH_YEAR..MaxYear :
          _is_year_completed(sync_progress[t], y) => _is_year_completed(sync_progress'[t], y)]_vars

(***************************************************************************)
(* resolve_predictions step by step: the find, then one entry of the loop  *)
(* at a time, beside new predictions and newly synced votings              *)
(***************************************************************************)
\* the find without its filter: every entry of the log
AllEntries(log) == [i \in DOMAIN log |-> i]

\* db.prediction_log.find({"actual": None}): the positions of the entries
Unresolved(log) ==
    LET RECURSIVE From(_)
        From(i) == IF i > Len(log) THEN <<>>
                   ELSE IF log[i].actual = None THEN <<i>> \o From(i + 1)
                   ELSE From(i + 1)
    IN  From(1)

\* the scheduler fires _resolve_predictions (one instance at a time): the
\* find returns
resolve_predictions_find ==
    /\ call.stage = "resolve"
    /\ call.pc = "idle"
    /\ call' = [call EXCEPT !.pc = "loop", !.unresolved = Unresolved(prediction_log)]
    /\ UNCHANGED NoDb

\* one turn of the loop over the entries found: the entry is matched against
\* the votings as they are now and, when a decision is found, updated by _id
resolve_predictions_entry ==
    /\ call.stage = "resolve"
    /\ call.pc = "loop"
    /\ IF call.unresolved = <<>>
       THEN /\ call' = [call EXCEPT !.pc = "idle"]
            /\ UNCHANGED prediction_log
       ELSE LET i == Head(call.unresolved)
                pred == prediction_log[i]
                actual_decision == ActualDecision(votings, pred)
            IN  /\ call' = [call EXCEPT !.unresolved = Tail(@)]
                /\ prediction_log' =
                      IF pred.mpUuid = None \/ actual_decision = None THEN prediction_log
                      ELSE [prediction_log EXCEPT ![i] =
                               [pred EXCEPT !.actual = actual_decision,
                                            !.correct = IF actual_decision = pred.predicted
                                                        THEN "true" ELSE "false",
                                            !.resolvedAt = clock]]
    /\ UNCHANGED <<votings, mps, clock, trainVars, syncVars, leakVars, predictVars>>

InitResolveLoop ==
    /\ votings = <<>>
    /\ mps = << Mp("m1", "RE", NoStats), Mp("m4", "K", NoStats) >>
    /\ prediction_log = <<>>
    /\ clock = 0
    /\ call = [stage |-> "resolve", pc |-> "idle", unresolved |-> <<>>]
    /\ TrainAtRest
    /\ SyncAtRest
    /\ LeakAtRest
    /\ PredictAtRest

NextResolveLoop ==
    \/ predict_mp
    \/ sync_parses_voting
    \/ resolve_predictions_find
    \/ resolve_predictions_entry

SpecResolveLoop == InitResolveLoop /\ [][NextResolveLoop]_vars

\* C30: an entry of prediction_log is resolved at most once: once it has an
\* actual decision its actual, correct and resolvedAt never change; in every
\* state correct and resolvedAt are set exactly when actual is set, and
\* correct is true exactly when actual equals predicted.
C30_ResolvedAtMostOnce ==
    [][/\ \A i \in DOMAIN prediction_log :
            prediction_log[i].actual # None =>
                /\ prediction_log'[i].actual = prediction_log[i].actual
                /\ prediction_log'[i].correct = prediction_log[i].correct
                /\ prediction_log'[i].resolvedAt = prediction_log[i].resolvedAt
       /\ \A i \in DOMAIN prediction_log' :
            LET e == prediction_log'[i]
            IN  /\ e.actual # None <=> e.correct # None
                /\ e.actual # None <=> e.resolvedAt # -1
                /\ e.correct = "true" <=> e.actual = e.predicted]_vars

\* two entries resolved by different runs, the second one wrong: the later
\* run started with the first entry resolved and has ended its loop
C30_Witness ==
    /\ call.stage = "resolve"
    /\ call.pc = "loop"
    /\ call.unresolved = <<>>
    /\ Len(prediction_log) = 2
    /\ prediction_log[1].actual # None
    /\ prediction_log[2].actual # None
    /\ prediction_log[1].resolvedAt < prediction_log[2].resolvedAt
    /\ prediction_log[1].correct = "true"
    /\ prediction_log[2].correct = "false"

====
